---- MODULE Spec2Model ----
(***************************************************************************)
(* A model of y-py (src/y-py/src/lib.rs), the Python binding of the yrs   *)
(* CRDT engine: documents, transactions, the preliminary/integrated       *)
(* shared types and the v1 update protocol.                               *)
(*                                                                         *)
(* The binding's own code (YDoc, YTransaction, YText, YArray, insert_at,  *)
(* PyObjectWrapper) is translated from lib.rs.  The yrs crate it calls    *)
(* (Doc, Transaction, Text, Array, StateVector, Update) is not part of    *)
(* the sources at hand; its operators are modelled from the engine's      *)
(* documented behaviour and are named after the yrs functions they stand  *)
(* for.                                                                    *)
(*                                                                         *)
(* A shared sequence (Text or Array) is kept in unit form: one record per *)
(* character or element.  A block of length n is n consecutive records of *)
(* which only the first has head = TRUE; the k-th element of a block has  *)
(* the (k-1)-th as its origin, which is exactly what splitting a block    *)
(* produces in the engine.                                                 *)
(***************************************************************************)
EXTENDS Integers, Sequences, FiniteSets, TLC

\* ------------------------------------------------------------------ bounds
MaxClock == 3      \* operations (characters / elements) one replica creates
MaxRun == 2        \* longest run inserted by one call
MaxEdits == 2      \* local edit calls per replica
MaxNet == 2        \* encoded updates kept in flight
MaxHandles == 3    \* YText / YArray objects the caller creates
MaxCalls == 3      \* calls that change a YText / YArray object

\* --------------------------------------------------------------- universe
Docs == {1, 2}                 \* documents; a document's replica id is its number
NoId == <<0, 0>>               \* an absent origin
RootNames == {"name"}          \* names of root-level shared types

Root(n) == [root |-> n, item |-> NoId]
Nested(id) == [root |-> "", item |-> id]

\* the character the replica `c` types as its `k`-th operation
Alphabet == <<  <<"a", "b", "c", "d", "e">>,
                <<"p", "q", "r", "s", "t">>,
                <<"x", "y", "z", "u", "v">> >>
Chr(c, k) == Alphabet[c][k + 1]

Range(s) == {s[i] : i \in DOMAIN s}
Max(S) == CHOOSE x \in S : \A y \in S : y <= x
Min(S) == CHOOSE x \in S : \A y \in S : x <= y

\* ------------------------------------------------------------- block store
\* yrs::Store: the sequences of the shared types, the per-client block lists,
\* the root namespace and the updates waiting for their dependencies.
EmptyStore ==
    [lists |-> <<>>,                       \* parent -> sequence of items
     blocks |-> [c \in Docs |-> <<>>],     \* client -> clocks, in integration order
     roots |-> <<>>,                       \* name -> kind of the root type
     pending |-> {},                       \* items whose dependencies are missing
     pendingDs |-> {}]                     \* deletions whose target is missing

ListOf(st, p) == IF p \in DOMAIN st.lists THEN st.lists[p] ELSE <<>>

PutList(st, p, L) ==
    [st EXCEPT !.lists = [q \in (DOMAIN st.lists) \cup {p} |->
                             IF q = p THEN L ELSE st.lists[q]]]

AllItems(st) == UNION {Range(st.lists[p]) : p \in DOMAIN st.lists}

\* yrs BlockStore::get_state: clock + len of the client's last block
GetState(st, c) ==
    IF st.blocks[c] = <<>> THEN 0
    ELSE st.blocks[c][Len(st.blocks[c])] + 1

\* yrs Transaction::state_vector / BlockStore::get_state_vector
StateVector(st) == [c \in Docs |-> GetState(st, c)]

EmptyVector == [c \in Docs |-> 0]

HasItem(st, id) == \E it \in AllItems(st) : it.id = id

\* ------------------------------------------------------------ shared types
Visible(L) == SelectSeq(L, LAMBDA it : ~it.deleted)

\* yrs Text::len / Array::len: the number of countable, not deleted elements
BranchLen(st, p) == Len(Visible(ListOf(st, p)))

\* yrs Text::to_string / Array::to_json: the values of the visible elements
BranchContent(st, p) ==
    LET V == Visible(ListOf(st, p)) IN [i \in 1..Len(V) |-> V[i].content.val]

IndexOfId(L, id) == CHOOSE i \in 1..Len(L) : L[i].id = id

\* yrs Text::find_position / Array::find_position: walk the list from its start
\* until `index` visible elements are passed; the result is the number of list
\* entries to the left of the position.
FindPosition(L, index) ==
    IF index = 0 THEN 0
    ELSE Min({p \in 1..Len(L) :
                Cardinality({i \in 1..p : ~L[i].deleted}) = index})

SetHead(L, i) ==
    IF i \in 1..Len(L) THEN [L EXCEPT ![i].head = TRUE] ELSE L

\* yrs Transaction::create_item for a run of `vals` written by client `c` at
\* visible position `index` of the sequence `p`: one block whose origin is the
\* element to the left and whose right origin is the element to the right.
InsertRun(st, c, p, index, kind, vals) ==
    LET L == ListOf(st, p)
        pos == FindPosition(L, index)
        left == IF pos = 0 THEN NoId ELSE L[pos].id
        right == IF pos < Len(L) THEN L[pos + 1].id ELSE NoId
        clock == GetState(st, c)
        new == [j \in 1..Len(vals) |->
                  [id |-> <<c, clock + j - 1>>,
                   origin |-> IF j = 1 THEN left ELSE <<c, clock + j - 2>>,
                   right |-> right,
                   parent |-> p,
                   content |-> [kind |-> kind, val |-> vals[j]],
                   deleted |-> FALSE,
                   head |-> (j = 1)]]
        L2 == SubSeq(L, 1, pos) \o new \o SetHead(SubSeq(L, pos + 1, Len(L)), 1)
        st2 == PutList(st, p, L2)
    IN [st2 EXCEPT !.blocks[c] =
            st.blocks[c] \o [j \in 1..Len(vals) |-> clock + j - 1]]

\* yrs Text::remove_range / Array::remove_range: tombstone `length` visible
\* elements from visible position `index` on.
RemoveRange(st, p, index, length) ==
    LET L == ListOf(st, p)
        vis == {i \in 1..Len(L) : ~L[i].deleted}
        rank(i) == Cardinality({j \in vis : j < i})
        hit == {i \in vis : rank(i) >= index /\ rank(i) < index + length}
        L2 == [i \in 1..Len(L) |->
                 IF i \in hit
                 THEN [L[i] EXCEPT !.deleted = TRUE,
                                   !.head = (L[i].head \/ (i - 1) \notin hit)]
                 ELSE IF (i - 1) \in hit THEN [L[i] EXCEPT !.head = TRUE]
                 ELSE L[i]]
    IN PutList(st, p, L2)

\* -------------------------------------------------------------- integration
\* the conflict scan that only orders items of the same origin and stops at
\* the first item of another origin
RECURSIVE ConflictScanSiblingsOnly(_, _, _, _, _, _, _)
ConflictScanSiblingsOnly(L, it, o, left, conflicting, before, stop) ==
    IF o > Len(L) \/ o = stop THEN left
    ELSE LET oi == L[o]
         IN IF oi.origin = it.origin
            THEN IF oi.id[1] < it.id[1]
                 THEN ConflictScanSiblingsOnly(L, it, o + 1, o, {}, {}, stop)
                 ELSE IF oi.right = it.right
                      THEN left
                      ELSE ConflictScanSiblingsOnly(L, it, o + 1, left, {}, {}, stop)
            ELSE left

\* yrs Item::integrate (the YATA conflict scan): `o` walks the list from the
\* element after the origin up to the right origin; the result is the index
\* the new item is placed after.
RECURSIVE ConflictScan(_, _, _, _, _, _, _)
ConflictScan(L, it, o, left, conflicting, before, stop) ==
    IF o > Len(L) \/ o = stop THEN left
    ELSE LET oi == L[o]
             before2 == before \cup {oi.id}
             conf2 == conflicting \cup {oi.id}
         IN IF oi.origin = it.origin
            THEN IF oi.id[1] < it.id[1]
                 THEN ConflictScan(L, it, o + 1, o, {}, before2, stop)
                 ELSE IF oi.right = it.right
                      THEN left
                      ELSE ConflictScan(L, it, o + 1, left, conf2, before2, stop)
            ELSE IF oi.origin # NoId /\ oi.origin \in before2
                 THEN IF oi.origin \notin conf2
                      THEN ConflictScan(L, it, o + 1, o, {}, before2, stop)
                      ELSE ConflictScan(L, it, o + 1, left, conf2, before2, stop)
                 ELSE left

\* the index after which the item `it` is integrated into the list L
IntegratePos(L, it) ==
    LET left == IF it.origin = NoId THEN 0 ELSE IndexOfId(L, it.origin)
        stop == IF it.right = NoId THEN Len(L) + 1 ELSE IndexOfId(L, it.right)
    IN ConflictScan(L, it, left + 1, left, {}, {}, stop)

\* yrs Item::integrate: link the item into its parent's list and append it to
\* its client's block list.
Integrate(st, it) ==
    LET L == ListOf(st, it.parent)
        pos == IntegratePos(L, it)
        L2 == SubSeq(L, 1, pos) \o <<it>> \o SetHead(SubSeq(L, pos + 1, Len(L)), 1)
        st2 == PutList(st, it.parent, L2)
    IN [st2 EXCEPT !.blocks[it.id[1]] = Append(st.blocks[it.id[1]], it.id[2])]

\* An item can be integrated when it is the next operation of its client and
\* the items it refers to (origin, right origin, parent) are in the store.
Known(st, id) == id = NoId \/ id[2] < GetState(st, id[1])

CanIntegrate(st, it) ==
    /\ it.id[2] = GetState(st, it.id[1])
    /\ Known(st, it.origin)
    /\ Known(st, it.right)
    /\ Known(st, it.parent.item)

IdLess(a, b) == a[1] < b[1] \/ (a[1] = b[1] /\ a[2] < b[2])

\* Update::integrate that integrates what it can and forgets the rest
RECURSIVE IntegrateAllNoPending(_, _)
IntegrateAllNoPending(st, queue) ==
    LET fresh == {it \in queue : it.id[2] >= GetState(st, it.id[1])}
        ready == {it \in fresh : /\ it.id[2] = GetState(st, it.id[1])
                                  /\ (it.origin = NoId \/ it.origin[2] < GetState(st, it.origin[1]))
                                  /\ (it.right = NoId \/ it.right[2] < GetState(st, it.right[1]))}
    IN IF ready = {}
       THEN st
       ELSE LET it == CHOOSE x \in ready : \A y \in ready :
                          ~(y.id[1] < x.id[1] \/ (y.id[1] = x.id[1] /\ y.id[2] < x.id[2]))
            IN IntegrateAllNoPending(
                   [PutList(st, it.parent,
                       LET L == ListOf(st, it.parent)
                           pos == IntegratePos(L, it)
                       IN SubSeq(L, 1, pos) \o <<it>> \o SubSeq(L, pos + 1, Len(L)))
                    EXCEPT !.blocks[it.id[1]] = Append(st.blocks[it.id[1]], it.id[2])],
                   fresh \ {it})

\* Update::integrate that does not recognise the items already in the store
RECURSIVE IntegrateAllAgain(_, _)
IntegrateAllAgain(st, queue) ==
    IF queue = {} THEN st
    ELSE LET it == CHOOSE x \in queue : \A y \in queue :
                      ~(y.id[1] < x.id[1] \/ (y.id[1] = x.id[1] /\ y.id[2] < x.id[2]))
             L == ListOf(st, it.parent)
             pos == IntegratePos(L, it)
         IN IntegrateAllAgain(
                [PutList(st, it.parent,
                         SubSeq(L, 1, pos) \o <<it>> \o SubSeq(L, pos + 1, Len(L)))
                 EXCEPT !.blocks[it.id[1]] = Append(st.blocks[it.id[1]], it.id[2])],
                queue \ {it})

\* yrs Update::integrate: integrate every item that can be, lowest id first,
\* drop the ones already in the store (same replica id and sequence number),
\* keep the rest pending.
RECURSIVE IntegrateAll(_, _)
IntegrateAll(st, queue) ==
    LET fresh == {it \in queue : it.id[2] >= GetState(st, it.id[1])}
        ready == {it \in fresh : CanIntegrate(st, it)}
    IN IF ready = {}
       THEN [st EXCEPT !.pending = fresh]
       ELSE LET it == CHOOSE x \in ready : \A y \in ready : ~IdLess(y.id, x.id)
            IN IntegrateAll(Integrate(st, it), fresh \ {it})

\* yrs DeleteSet application: tombstone the targets that are in the store,
\* keep the others until their target arrives.
ApplyDeleteSet(st, ds) ==
    LET here == {id \in ds : HasItem(st, id)}
        mark(L) == [i \in 1..Len(L) |->
                      IF L[i].id \in here /\ ~L[i].deleted
                      THEN [L[i] EXCEPT !.deleted = TRUE, !.head = TRUE]
                      ELSE IF i > 1 /\ L[i - 1].id \in here /\ ~L[i - 1].deleted
                      THEN [L[i] EXCEPT !.head = TRUE]
                      ELSE L[i]]
    IN [st EXCEPT !.lists = [p \in DOMAIN st.lists |-> mark(st.lists[p])],
                  !.pendingDs = ds \ here]

\* apply_update that takes a block it holds already as the update has it, live
ApplyUpdateReviving(st, update) ==
    LET sent == {it.id : it \in Range(update.structs)}
        live(L) == [i \in 1..Len(L) |->
                      IF L[i].id \in sent /\ L[i].id \notin update.ds
                      THEN [L[i] EXCEPT !.deleted = FALSE] ELSE L[i]]
        st1 == [st EXCEPT !.lists = [p \in DOMAIN st.lists |-> live(st.lists[p])]]
        st2 == IntegrateAll(st1, st.pending \cup Range(update.structs))
    IN ApplyDeleteSet(st2, st.pendingDs \cup update.ds)

\* yrs Transaction::apply_update
ApplyUpdate(st, update) ==
    LET st2 == IntegrateAll(st, st.pending \cup Range(update.structs))
    IN ApplyDeleteSet(st2, st.pendingDs \cup update.ds)

\* ------------------------------------------------------------------ encoding
\* The items of client c with clock >= from, in clock order.
RECURSIVE ClientStructs(_, _, _)
ClientStructs(st, c, from) ==
    IF from >= GetState(st, c) THEN <<>>
    ELSE LET it == CHOOSE x \in AllItems(st) : x.id = <<c, from>>
         IN <<[it EXCEPT !.deleted = FALSE]>> \o ClientStructs(st, c, from + 1)

RECURSIVE StructsFrom(_, _, _)
StructsFrom(st, sv, cs) ==
    IF cs = {} THEN <<>>
    ELSE LET c == Max(cs)
         IN ClientStructs(st, c, sv[c]) \o StructsFrom(st, sv, cs \ {c})

\* yrs DeleteSet::from(&store.blocks): the ids of all tombstoned items
DeleteSetOf(st) == {it.id : it \in {x \in AllItems(st) : x.deleted}}

\* yrs Transaction::encode_diff: the blocks the remote state vector does not
\* cover, higher client ids first, followed by the delete set of the store.
RECURSIVE SortedIds(_)
SortedIds(ids) ==
    IF ids = {} THEN <<>>
    ELSE LET m == CHOOSE x \in ids : \A y \in ids : ~IdLess(y, x)
         IN <<m>> \o SortedIds(ids \ {m})

\* `cut` marks a byte string that ends before the content it announces does.
EncodeDiff(st, sv) ==
    [structs |-> StructsFrom(st, sv, Docs), ds |-> SortedIds(DeleteSetOf(st)),
     cut |-> FALSE]

\* the payload with only its first n entries (blocks, then deletions) left
Cut(payload, n) ==
    [structs |-> SubSeq(payload.structs, 1, Min({n, Len(payload.structs)})),
     ds |-> SubSeq(payload.ds, 1, Max({n - Len(payload.structs), 0})),
     cut |-> TRUE]

DecodeError == "decoding failed"

\* yrs Update::decode: the blocks and the delete set of a payload; a payload
\* that ends early is not decoded
UpdateDecode(payload) ==
    [ok |-> ~payload.cut, structs |-> payload.structs, ds |-> Range(payload.ds)]

\* yrs StateVector::encode_v1: the number of entries, then client and clock of
\* each, as variable-length integers (one byte each below 128).
RECURSIVE EncodeEntries(_, _)
EncodeEntries(sv, cs) ==
    IF cs = {} THEN <<>>
    ELSE LET c == Min(cs) IN <<c, sv[c]>> \o EncodeEntries(sv, cs \ {c})

EncodeV1(sv) ==
    LET cs == {c \in DOMAIN sv : sv[c] > 0}
    IN <<Cardinality(cs)>> \o EncodeEntries(sv, cs)

\* decode_v1 that reads the first entry only
DecodeV1FirstEntry(bytes) ==
    [c \in Docs |-> IF bytes[1] >= 1 /\ bytes[2] = c THEN bytes[3] ELSE 0]

\* yrs StateVector::decode_v1
DecodeV1(bytes) ==
    LET n == bytes[1]
    IN [c \in Docs |->
          IF \E k \in 1..n : bytes[2 * k] = c
          THEN bytes[2 * (CHOOSE k \in 1..n : bytes[2 * k] = c) + 1]
          ELSE 0]

\* -------------------------------------------------------------------- commit
\* Two neighbours belong to one block when they were written one after the
\* other by one client with the same right origin and are in the same state.
Mergeable(a, b) ==
    /\ a.id[1] = b.id[1]
    /\ b.id[2] = a.id[2] + 1
    /\ b.origin = a.id
    /\ b.right = a.right
    /\ a.deleted = b.deleted
    /\ a.content.kind = b.content.kind
    /\ a.content.kind # "type"

Squash(L) ==
    [i \in 1..Len(L) |->
        [L[i] EXCEPT !.head = (i = 1 \/ ~Mergeable(L[i - 1], L[i]))]]

\* commit that also forgets the last clock of a client when it is a tombstone
CommitCollecting(st) ==
    LET gone(c) == /\ st.blocks[c] # <<>>
                   /\ \E it \in AllItems(st) :
                         /\ it.id = <<c, st.blocks[c][Len(st.blocks[c])]>>
                         /\ it.deleted
    IN [st EXCEPT !.lists = [p \in DOMAIN st.lists |-> Squash(st.lists[p])],
                  !.blocks = [c \in Docs |->
                                IF gone(c)
                                THEN SubSeq(st.blocks[c], 1, Len(st.blocks[c]) - 1)
                                ELSE st.blocks[c]]]

\* commit that keeps of every merged block its first element only
CommitKeepingHeads(st) ==
    [st EXCEPT !.lists = [p \in DOMAIN st.lists |->
                            SelectSeq(Squash(st.lists[p]), LAMBDA it : it.head)]]

\* yrs Transaction::commit: merge neighbouring blocks
Commit(st) ==
    [st EXCEPT !.lists = [p \in DOMAIN st.lists |-> Squash(st.lists[p])]]

\* ------------------------------------------------------------- transactions
VARIABLES
    store,      \* document -> block store (yrs Doc.store)
    txns,       \* document -> the live YTransaction objects on it
    net,        \* encoded updates in flight, with the history of each
    edits,      \* document -> number of local edit calls made (history)
    err,        \* the failure the last call raised, NoError when it returned
    handles,    \* the YText / YArray objects the caller holds
    readers,    \* the values() iterators the caller holds
    call        \* the insert_at call in progress, and how far it has come

vars == <<store, txns, net, edits, err, handles, readers, call>>

OpenTxn == [committed |-> FALSE, changed |-> FALSE]

\* yrs Doc::transact: borrows the store mutably; a second borrow panics
Doc_transact(ts) ==
    IF ts # <<>>
    THEN [ok |-> FALSE, txns |-> ts]
    ELSE [ok |-> TRUE, txns |-> Append(ts, OpenTxn)]

\* YDoc::begin_transaction without the borrow check
BeginTransactionUnchecked(ts) == [ok |-> TRUE, txns |-> Append(ts, OpenTxn)]

\* YDoc::begin_transaction refusing the call but resetting the open transaction
BeginTransactionReplacing(ts) == [ok |-> ts = <<>>, txns |-> <<OpenTxn>>]

\* YDoc::begin_transaction
YDoc_begin_transaction(ts) == Doc_transact(ts)

RemoveAt(s, i) == SubSeq(s, 1, i - 1) \o SubSeq(s, i + 1, Len(s))

\* Drop that gives the store back without committing
DropWithoutCommit(st, ts, i) == [store |-> st, txns |-> RemoveAt(ts, i)]

\* impl Drop for YTransaction: dropping the yrs transaction commits it and
\* gives the store back
YTransaction_drop(st, ts, i) == [store |-> Commit(st), txns |-> RemoveAt(ts, i)]

\* YTransaction::commit
YTransaction_commit(st) == Commit(st)

\* the absent `vector` argument of diff_v1 / encode_state_as_update
Omitted == <<>>

\* state_vector_v1 that encodes a default (empty) state vector
StateVectorV1Default(st) == EncodeV1(EmptyVector)

\* YTransaction::state_vector_v1
YTransaction_state_vector_v1(st) == EncodeV1(StateVector(st))

\* diff_v1 that ignores the peer's vector
DiffV1IgnoringVector(st, vector) == EncodeDiff(st, EmptyVector)

\* diff_v1 that takes the clocks of the vector as the last ones the peer holds
DiffV1AfterVector(st, vector) ==
    LET sv == IF vector # Omitted THEN DecodeV1(vector) ELSE EmptyVector
    IN EncodeDiff(st, [c \in Docs |-> IF sv[c] > 0 THEN sv[c] + 1 ELSE 0])

\* YTransaction::diff_v1
YTransaction_diff_v1(st, vector) ==
    LET sv == IF vector # Omitted THEN DecodeV1(vector) ELSE EmptyVector
    IN EncodeDiff(st, sv)

\* apply_v1 that integrates the blocks of the update and skips its delete set
ApplyV1BlocksOnly(st, diff) ==
    ApplyUpdate(st, [structs |-> diff.structs, ds |-> {}])

\* apply_v1 that applies what it could read of a payload
ApplyV1Lenient(st, diff) ==
    ApplyUpdate(st, [structs |-> diff.structs, ds |-> Range(diff.ds)])

\* YTransaction::apply_v1: the update is decoded, then applied; the panic of
\* the decoder comes before anything is applied
YTransaction_apply_v1(st, diff) ==
    LET update == UpdateDecode(diff)
    IN IF update.ok THEN ApplyUpdate(st, update) ELSE st

\* get_root that makes a fresh root when the name is bound to the other kind
GetRootRecreating(st, name, kind) ==
    IF name \in DOMAIN st.roots /\ st.roots[name] = kind THEN st
    ELSE [PutList(st, Root(name), <<>>)
             EXCEPT !.roots = [n \in (DOMAIN st.roots) \cup {name} |->
                                  IF n = name THEN kind ELSE st.roots[n]]]

\* yrs Transaction::get_text / get_array: look the root type up, create it on
\* first access
Transaction_get_root(st, name, kind) ==
    IF name \in DOMAIN st.roots THEN st
    ELSE [st EXCEPT !.roots = [n \in (DOMAIN st.roots) \cup {name} |->
                                  IF n = name THEN kind ELSE st.roots[n]]]

\* ------------------------------------------------------------ document calls
TextRoot == Root("name")

\* the chunk a replica types: `k` characters, starting with its next one
Chunk(st, c, k) == [j \in 1..k |-> Chr(c, GetState(st, c) + j - 1)]

\* YText::insert on an integrated text: Text::insert(txn, index, chunk)
YText_insert(st, c, p, index, chunk) == InsertRun(st, c, p, index, "string", chunk)

\* YText::delete on an integrated text: Text::remove_range(txn, index, length)
YText_delete(st, p, index, length) == RemoveRange(st, p, index, length)

\* what a reader of the document sees: the content of every shared type and
\* the state vector
Snapshot(st) ==
    [content |-> [p \in DOMAIN st.lists |-> BranchContent(st, p)],
     sv |-> StateVector(st)]

NoError == [call |-> "", doc |-> 0, error |-> ""]
\* the panic of a second mutable borrow of the store, raised as an exception
AlreadyBorrowed == "already borrowed"
Failed(what, d, e) == [call |-> what, doc |-> d, error |-> e]

\* no insert_at is running
NoCall == [h |-> 0, index |-> 0, src |-> <<>>, i |-> 0, j |-> 0]

Init ==
    /\ store = [d \in Docs |-> EmptyStore]
    /\ txns = [d \in Docs |-> <<>>]
    /\ net = <<>>
    /\ edits = [d \in Docs |-> 0]
    /\ err = NoError
    /\ handles = <<>>
    /\ readers = <<>>
    /\ call = NoCall

\* doc.transact(lambda txn: txn.get_text("name").insert(txn, index, chunk))
LocalInsert(d, index, k) ==
    /\ edits[d] < MaxEdits
    /\ GetState(store[d], d) + k <= MaxClock
    /\ index <= BranchLen(store[d], TextRoot)
    /\ LET b == YDoc_begin_transaction(txns[d])
       IN /\ b.ok
          /\ LET st1 == Transaction_get_root(store[d], "name", "text")
                 st2 == YText_insert(st1, d, TextRoot, index, Chunk(st1, d, k))
                 r == YTransaction_drop(st2, b.txns, Len(b.txns))
             IN /\ store' = [store EXCEPT ![d] = r.store]
                /\ txns' = [txns EXCEPT ![d] = r.txns]
    /\ edits' = [edits EXCEPT ![d] = @ + 1]
    /\ err' = NoError
    /\ UNCHANGED <<net, handles, readers, call>>

\* doc.transact(lambda txn: txn.get_text("name").delete(txn, index, length))
LocalDelete(d, index, length) ==
    /\ edits[d] < MaxEdits
    /\ index + length <= BranchLen(store[d], TextRoot)
    /\ LET b == YDoc_begin_transaction(txns[d])
       IN /\ b.ok
          /\ LET st1 == Transaction_get_root(store[d], "name", "text")
                 st2 == YText_delete(st1, TextRoot, index, length)
                 r == YTransaction_drop(st2, b.txns, Len(b.txns))
             IN /\ store' = [store EXCEPT ![d] = r.store]
                /\ txns' = [txns EXCEPT ![d] = r.txns]
    /\ edits' = [edits EXCEPT ![d] = @ + 1]
    /\ err' = NoError
    /\ UNCHANGED <<net, handles, readers, call>>

\* encode_state_vector that keeps the transaction it began
EncodeStateVectorKeepingOpen(st, ts) ==
    LET b == YDoc_begin_transaction(ts)
    IN IF ~b.ok THEN [ok |-> FALSE, bytes |-> <<>>, store |-> st, txns |-> ts]
       ELSE [ok |-> TRUE,
             bytes |-> YTransaction_state_vector_v1(st),
             store |-> st,
             txns |-> b.txns]

\* encode_state_vector(doc): begin_transaction().state_vector_v1()
encode_state_vector(st, ts) ==
    LET b == YDoc_begin_transaction(ts)
    IN IF ~b.ok THEN [ok |-> FALSE, bytes |-> <<>>, store |-> st, txns |-> ts]
       ELSE [ok |-> TRUE,
             bytes |-> YTransaction_state_vector_v1(st),
             store |-> YTransaction_drop(st, b.txns, Len(b.txns)).store,
             txns |-> YTransaction_drop(st, b.txns, Len(b.txns)).txns]

\* encode_state_as_update that takes out of the document what it encodes
EncodeStateAsUpdateMoving(st, ts, vector) ==
    LET b == YDoc_begin_transaction(ts)
        bytes == YTransaction_diff_v1(st, vector)
        sent == {it.id : it \in Range(bytes.structs)}
    IN IF ~b.ok THEN [ok |-> FALSE, bytes |-> <<>>, store |-> st, txns |-> ts]
       ELSE [ok |-> TRUE,
             bytes |-> bytes,
             store |-> YTransaction_drop(ApplyDeleteSet(st, sent),
                                         b.txns, Len(b.txns)).store,
             txns |-> YTransaction_drop(st, b.txns, Len(b.txns)).txns]

\* encode_state_as_update(doc, vector): begin_transaction().diff_v1(vector)
encode_state_as_update(st, ts, vector) ==
    LET b == YDoc_begin_transaction(ts)
    IN IF ~b.ok THEN [ok |-> FALSE, bytes |-> <<>>, store |-> st, txns |-> ts]
       ELSE [ok |-> TRUE,
             bytes |-> YTransaction_diff_v1(st, vector),
             store |-> YTransaction_drop(st, b.txns, Len(b.txns)).store,
             txns |-> YTransaction_drop(st, b.txns, Len(b.txns)).txns]

\* apply_update(doc, diff): begin_transaction().apply_v1(diff)
apply_update(st, ts, diff) ==
    LET b == YDoc_begin_transaction(ts)
    IN IF ~b.ok
       THEN [ok |-> FALSE, error |-> AlreadyBorrowed, store |-> st, txns |-> ts]
       ELSE [ok |-> UpdateDecode(diff).ok,
             error |-> IF UpdateDecode(diff).ok THEN "" ELSE DecodeError,
             store |-> YTransaction_drop(YTransaction_apply_v1(st, diff),
                                         b.txns, Len(b.txns)).store,
             txns |-> YTransaction_drop(st, b.txns, Len(b.txns)).txns]

\* A message in flight: the payload and, as history, who encoded it, after how
\* many local edits, whether it carries every block of the encoder (as the
\* update encoded with the vector omitted does), and which documents have
\* applied it.
Message(payload, d) ==
    [payload |-> payload,
     from |-> d,
     fromEdits |-> edits[d],
     full |-> (payload.structs = EncodeDiff(store[d], EmptyVector).structs),
     seenBy |-> {}]

\* encode_state_as_update(doc) with the vector omitted: a full snapshot
EncodeFull(d) ==
    /\ Len(net) < MaxNet
    /\ LET r == encode_state_as_update(store[d], txns[d], Omitted)
       IN /\ r.ok
          /\ store' = [store EXCEPT ![d] = r.store]
          /\ net' = Append(net, Message(r.bytes, d))
    /\ err' = NoError
    /\ UNCHANGED <<txns, edits, handles, readers, call>>

\* encode_state_as_update(doc, encode_state_vector(peer)): a delta for `peer`
EncodeFor(d, peer) ==
    /\ Len(net) < MaxNet
    /\ d # peer
    /\ LET v == encode_state_vector(store[peer], txns[peer])
           r == encode_state_as_update(store[d], txns[d], v.bytes)
       IN /\ v.ok /\ r.ok
          /\ store' = [store EXCEPT ![d] = r.store, ![peer] = v.store]
          /\ net' = Append(net, Message(r.bytes, d))
    /\ err' = NoError
    /\ UNCHANGED <<txns, edits, handles, readers, call>>

\* encode_state_as_update(doc, vector) with a state vector supplied by the
\* caller that covers the first `k` operations of this document's replica: the
\* update carries what the replica has written after them
EncodeSince(d, k) ==
    /\ Len(net) < MaxNet
    /\ k \in 1..(GetState(store[d], d) - 1)
    /\ LET old == [c \in Docs |-> IF c = d THEN k ELSE 0]
           r == encode_state_as_update(store[d], txns[d], EncodeV1(old))
       IN /\ r.ok
          /\ store' = [store EXCEPT ![d] = r.store]
          /\ net' = Append(net, Message(r.bytes, d))
    /\ err' = NoError
    /\ UNCHANGED <<txns, edits, handles, readers, call>>

\* apply_update(doc, diff) with a payload taken from the network
Apply(d, i) ==
    /\ i \in 1..Len(net)
    /\ net[i].from # d
    /\ LET r == apply_update(store[d], txns[d], net[i].payload)
       IN /\ r.ok
          /\ store' = [store EXCEPT ![d] = r.store]
    /\ net' = [net EXCEPT ![i].seenBy = @ \cup {d}]
    /\ err' = NoError
    /\ UNCHANGED <<txns, edits, handles, readers, call>>

NextSync ==
    \/ \E d \in Docs, index \in 0..MaxClock * 2, k \in 1..MaxRun :
          LocalInsert(d, index, k)
    \/ \E d \in Docs, index \in 0..MaxClock * 2, length \in 1..MaxRun :
          LocalDelete(d, index, length)
    \/ \E d \in Docs : EncodeFull(d)
    \/ \E d \in Docs, peer \in Docs : EncodeFor(d, peer)
    \/ \E d \in Docs, k \in 1..MaxClock : EncodeSince(d, k)
    \/ \E d \in Docs, i \in 1..MaxNet : Apply(d, i)

SpecSync == Init /\ [][NextSync]_vars

\* ------------------------------------------------- explicit transactions
\* The caller keeps a transaction open over several calls.  A live
\* YTransaction is addressed by its position `i` in txns[d].

\* edits made so far, over all documents
TotalEdits == edits[1] + edits[2]

SetTxn(ts, i, t) == [ts EXCEPT ![i] = t]

\* A values() iterator keeps a reference to the transaction it was made with
\* (YArray::values, `tx: *const Transaction<'static>`), which no lifetime ties
\* to the YTransaction object. `txn` of a reader says what has become of that
\* transaction: "open", "committed", or "released" when the object is gone and
\* the reference dangles.
Under(rs, d, what) ==
    [k \in DOMAIN rs |->
        IF rs[k].doc = d /\ rs[k].txn # "released"
        THEN [rs[k] EXCEPT !.txn = what] ELSE rs[k]]

\* doc.begin_transaction()
BeginTransaction(d) ==
    /\ LET b == YDoc_begin_transaction(txns[d])
       IN /\ txns' = [txns EXCEPT ![d] = b.txns]
          /\ err' = IF b.ok THEN NoError
                    ELSE Failed("begin_transaction", d, AlreadyBorrowed)
    /\ UNCHANGED <<store, net, edits, handles, readers, call>>

\* YDoc::transact(callback): begin_transaction(), then the callback is called
\* with the transaction (its calls are the steps that follow)
Transact(d) ==
    /\ LET b == YDoc_begin_transaction(txns[d])
       IN /\ txns' = [txns EXCEPT ![d] = b.txns]
          /\ err' = IF b.ok THEN NoError
                    ELSE Failed("transact", d, AlreadyBorrowed)
    /\ UNCHANGED <<store, net, edits, handles, readers, call>>

\* text = txn.get_text("name"); text.insert(txn, index, chunk)
TxnInsert(d, i, index, k) ==
    /\ i \in DOMAIN txns[d]
    /\ TotalEdits < MaxEdits
    /\ GetState(store[d], d) + k <= MaxClock
    /\ index <= BranchLen(store[d], TextRoot)
    /\ LET st1 == Transaction_get_root(store[d], "name", "text")
       IN store' = [store EXCEPT ![d] =
                       YText_insert(st1, d, TextRoot, index, Chunk(st1, d, k))]
    /\ txns' = [txns EXCEPT ![d] = SetTxn(@, i, [@[i] EXCEPT !.changed = TRUE])]
    /\ edits' = [edits EXCEPT ![d] = @ + 1]
    /\ err' = NoError
    /\ UNCHANGED <<net, handles, readers, call>>

\* text = txn.get_text("name"); text.delete(txn, index, length)
TxnDelete(d, i, index, length) ==
    /\ i \in DOMAIN txns[d]
    /\ TotalEdits < MaxEdits
    /\ index + length <= BranchLen(store[d], TextRoot)
    /\ LET st1 == Transaction_get_root(store[d], "name", "text")
       IN store' = [store EXCEPT ![d] = YText_delete(st1, TextRoot, index, length)]
    /\ txns' = [txns EXCEPT ![d] = SetTxn(@, i, [@[i] EXCEPT !.changed = TRUE])]
    /\ edits' = [edits EXCEPT ![d] = @ + 1]
    /\ err' = NoError
    /\ UNCHANGED <<net, handles, readers, call>>

\* txn.commit()
TxnCommit(d, i) ==
    /\ i \in DOMAIN txns[d]
    /\ store' = [store EXCEPT ![d] = YTransaction_commit(@)]
    /\ txns' = [txns EXCEPT ![d] =
                   SetTxn(@, i, [committed |-> TRUE, changed |-> FALSE])]
    /\ readers' = Under(readers, d, "committed")
    /\ err' = NoError
    /\ UNCHANGED <<net, edits, handles, call>>

\* the last reference to the transaction object goes away: Drop runs
TxnFree(d, i) ==
    /\ i \in DOMAIN txns[d]
    /\ LET r == YTransaction_drop(store[d], txns[d], i)
       IN /\ store' = [store EXCEPT ![d] = r.store]
          /\ txns' = [txns EXCEPT ![d] = r.txns]
    /\ readers' = Under(readers, d, "released")
    /\ err' = NoError
    /\ UNCHANGED <<net, edits, handles, call>>

\* the byte strings a caller may hand over as the update of the document
\* `e`: its full update, and every proper beginning of it
UpdatesOf(e) ==
    LET full == YTransaction_diff_v1(store[e], Omitted)
    IN {full} \cup {Cut(full, n) : n \in 0..(Len(full.structs) + Len(full.ds) - 1)}

\* txn.apply_v1(diff)
TxnApply(d, i, diff) ==
    /\ i \in DOMAIN txns[d]
    /\ store' = [store EXCEPT ![d] = YTransaction_apply_v1(@, diff)]
    /\ txns' = [txns EXCEPT ![d] =
                   SetTxn(@, i, [@[i] EXCEPT !.changed = @ \/ UpdateDecode(diff).ok])]
    /\ err' = IF UpdateDecode(diff).ok THEN NoError
              ELSE Failed("apply_v1", d, DecodeError)
    /\ UNCHANGED <<net, edits, handles, readers, call>>

\* YDoc::get_text(name) / YDoc::get_array(name):
\* begin_transaction().get_text(name)
YDoc_get_root(st, ts, name, kind) ==
    LET b == YDoc_begin_transaction(ts)
    IN IF ~b.ok THEN [ok |-> FALSE, store |-> st, txns |-> ts]
       ELSE [ok |-> TRUE,
             store |-> YTransaction_drop(Transaction_get_root(st, name, kind),
                                         b.txns, Len(b.txns)).store,
             txns |-> YTransaction_drop(st, b.txns, Len(b.txns)).txns]

\* doc.get_text("name")
DocGetText(d) ==
    /\ LET r == YDoc_get_root(store[d], txns[d], "name", "text")
       IN /\ store' = [store EXCEPT ![d] = r.store]
          /\ txns' = [txns EXCEPT ![d] = r.txns]
          /\ err' = IF r.ok THEN NoError ELSE Failed("get_text", d, AlreadyBorrowed)
    /\ UNCHANGED <<net, edits, handles, readers, call>>

\* doc.get_array("name")
DocGetArray(d) ==
    /\ LET r == YDoc_get_root(store[d], txns[d], "name", "array")
       IN /\ store' = [store EXCEPT ![d] = r.store]
          /\ txns' = [txns EXCEPT ![d] = r.txns]
          /\ err' = IF r.ok THEN NoError ELSE Failed("get_array", d, AlreadyBorrowed)
    /\ UNCHANGED <<net, edits, handles, readers, call>>

\* encode_state_vector(doc)
DocEncodeStateVector(d) ==
    /\ LET r == encode_state_vector(store[d], txns[d])
       IN /\ store' = [store EXCEPT ![d] = r.store]
          /\ txns' = [txns EXCEPT ![d] = r.txns]
          /\ err' = IF r.ok THEN NoError
                    ELSE Failed("encode_state_vector", d, AlreadyBorrowed)
    /\ UNCHANGED <<net, edits, handles, readers, call>>

\* encode_state_as_update(doc, vector), the vector omitted or a peer's
DocEncodeStateAsUpdate(d, vector) ==
    /\ LET r == encode_state_as_update(store[d], txns[d], vector)
       IN /\ store' = [store EXCEPT ![d] = r.store]
          /\ txns' = [txns EXCEPT ![d] = r.txns]
          /\ err' = IF r.ok THEN NoError
                    ELSE Failed("encode_state_as_update", d, AlreadyBorrowed)
    /\ UNCHANGED <<net, edits, handles, readers, call>>

\* apply_update(doc, diff)
DocApplyUpdate(d, diff) ==
    /\ LET r == apply_update(store[d], txns[d], diff)
       IN /\ store' = [store EXCEPT ![d] = r.store]
          /\ txns' = [txns EXCEPT ![d] = r.txns]
          /\ err' = IF r.ok THEN NoError
                    ELSE Failed("apply_update", d, r.error)
    /\ UNCHANGED <<net, edits, handles, readers, call>>

\* a transaction handle the caller may address: a live one, or the next slot
Slots == 1..2

Next ==
    \/ \E d \in Docs : BeginTransaction(d)
    \/ \E d \in Docs : Transact(d)
    \/ \E d \in Docs, i \in Slots, index \in 0..MaxClock * 2, k \in 1..MaxRun :
          TxnInsert(d, i, index, k)
    \/ \E d \in Docs, i \in Slots, index \in 0..MaxClock * 2, length \in 1..MaxRun :
          TxnDelete(d, i, index, length)
    \/ \E d \in Docs, i \in Slots : TxnCommit(d, i)
    \/ \E d \in Docs, i \in Slots : TxnFree(d, i)
    \/ \E d \in Docs, i \in Slots : \E e \in Docs \ {d} : \E diff \in UpdatesOf(e) :
          TxnApply(d, i, diff)
    \/ \E d \in Docs : DocGetText(d)
    \/ \E d \in Docs : DocGetArray(d)
    \/ \E d \in Docs : DocEncodeStateVector(d)
    \/ \E d \in Docs, e \in Docs :
          DocEncodeStateAsUpdate(d, IF e = d THEN Omitted
                                    ELSE YTransaction_state_vector_v1(store[e]))
    \/ \E d \in Docs : \E e \in Docs \ {d} : \E diff \in UpdatesOf(e) :
          DocApplyUpdate(d, diff)

Spec == Init /\ [][Next]_vars

\* ------------------------------------------------- preliminary / integrated
\* A YText or YArray object is a cell holding SharedType::Prelim(local value)
\* or SharedType::Integrated(reference to a branch of the document).  The
\* objects are addressed by their position in `handles`.

\* Python objects that are not shared types, by their type: `v` is the value
\* of a scalar (a bool as 0 / 1, a float as its number of halves, a str as its
\* code points), `items` the elements of a list or the entries of a dict
PyNone == [type |-> "NoneType", v |-> <<>>, items |-> <<>>]
PyBool(b) == [type |-> "bool", v |-> <<IF b THEN 1 ELSE 0>>, items |-> <<>>]
PyLong(i) == [type |-> "int", v |-> <<i>>, items |-> <<>>]
PyFloat(halves) == [type |-> "float", v |-> <<halves>>, items |-> <<>>]
PyString(str) == [type |-> "str", v |-> str, items |-> <<>>]
PyList(xs) == [type |-> "list", v |-> <<>>, items |-> xs]
PyDict(es) == [type |-> "dict", v |-> <<>>, items |-> es]

\* one element of a list (no key) or one entry of a dict: a scalar under a key
Entry(key, o) == [key |-> key, type |-> o.type, v |-> o.v]
Scalar(e) == [type |-> e.type, v |-> e.v, items |-> <<>>]

\* the str "1" and the str "2"
One == PyString(<<49>>)
Two == PyString(<<50>>)

\* what a Python list handed to YArray may hold
AnyValue(v) == [kind |-> "any", val |-> v, h |-> 0]         \* a plain object
Ref(h) == [kind |-> "shared", val |-> PyNone, h |-> h]  \* a YText / YArray object
Opaque == [kind |-> "object", val |-> PyNone, h |-> 0]  \* any other object

NoBranch == Nested(NoId)

\* SharedType::prelim
SharedType_prelim(kind, text, items) ==
    [kind |-> kind, prelim |-> TRUE, text |-> text, items |-> items,
     branch |-> NoBranch, ctor |-> "new"]

\* SharedType::new that keeps a value of its own instead of the reference
SharedTypeNewDetached(kind, branch, ctor) ==
    [kind |-> kind, prelim |-> TRUE, text |-> <<>>, items |-> <<>>,
     branch |-> NoBranch, ctor |-> ctor]

\* SharedType::new
SharedType_new(kind, branch, ctor) ==
    [kind |-> kind, prelim |-> FALSE, text |-> <<>>, items |-> <<>>,
     branch |-> branch, ctor |-> ctor]

\* YText::new(init)
YText_new(init) == SharedType_prelim("text", init, <<>>)

\* YArray::new(init)
YArray_new(init) == SharedType_prelim("array", <<>>, init)

\* YText::prelim / YArray::prelim
YText_prelim(hs, h) == hs[h].prelim

\* YText::length / YArray::length
YArray_length(hs, st, h) ==
    IF hs[h].prelim
    THEN (IF hs[h].kind = "text" THEN Len(hs[h].text) ELSE Len(hs[h].items))
    ELSE BranchLen(st, hs[h].branch)

\* the integers below F64Exact are doubles; 2^53, narrowed
F64Exact == 8

\* l.extract::<f64>() of a Python int: the nearest double, ties to the even
\* mantissa (integers up to twice F64Exact)
ToF64(i) ==
    IF i <= F64Exact THEN i
    ELSE LET lo == i - (i % 2)
         IN IF i % 2 = 0 THEN i
            ELSE IF (lo \div 2) % 2 = 0 THEN lo ELSE lo + 2

\* v.downcast::<T>(): the object is an instance of the type; bool is a
\* subclass of int
Downcast(o, type) == o.type = type \/ (type = "int" /\ o.type = "bool")

\* yrs lib0 Any
Any_of(tag, v, items) == [tag |-> tag, v |-> v, items |-> items]

\* the scalar cases of py_into_any, in the order of the code: str, int (as
\* f64, then as i64), float, bool; None has no case
ScalarIntoAny(o) ==
    IF Downcast(o, "str") THEN <<Any_of("String", o.v, <<>>)>>
    ELSE IF Downcast(o, "int") THEN <<Any_of("BigInt", <<ToF64(o.v[1])>>, <<>>)>>
    ELSE IF Downcast(o, "float") THEN <<Any_of("Number", o.v, <<>>)>>
    ELSE IF Downcast(o, "bool") THEN <<Any_of("Bool", o.v, <<>>)>>
    ELSE <<>>

\* the elements of a list / the entries of a dict, each through py_into_any;
\* `?` gives up at the first that has no JSON-like value
EntriesIntoAny(es) ==
    IF \E k \in DOMAIN es : ScalarIntoAny(Scalar(es[k])) = <<>>
    THEN <<>>
    ELSE << [k \in DOMAIN es |->
               LET a == ScalarIntoAny(Scalar(es[k]))[1]
               IN [key |-> es[k].key, tag |-> a.tag, v |-> a.v]] >>

\* py_into_any: the JSON-like value of a Python object, if it has one
py_into_any(el) ==
    IF el.kind # "any" THEN <<>>
    ELSE LET o == el.val
         IN IF Downcast(o, "list")
            THEN (IF EntriesIntoAny(o.items) = <<>> THEN <<>>
                  ELSE <<Any_of("Array", <<>>, EntriesIntoAny(o.items)[1])>>)
            ELSE IF Downcast(o, "dict")
            THEN (IF EntriesIntoAny(o.items) = <<>> THEN <<>>
                  ELSE <<Any_of("Map", <<>>, EntriesIntoAny(o.items)[1])>>)
            ELSE ScalarIntoAny(o)

\* The block store keeps a JSON-like value under its written form, a string
\* as every other content of an item is: tag:value[key=tag:value,...]
RECURSIVE Digits(_)
Digits(v) == IF v = <<>> THEN "" ELSE ToString(Head(v)) \o "." \o Digits(Tail(v))

RECURSIVE EntryNames(_)
EntryNames(es) ==
    IF es = <<>> THEN ""
    ELSE Digits(es[1].key) \o "=" \o es[1].tag \o ":" \o Digits(es[1].v) \o ","
         \o EntryNames(Tail(es))

Stored(a) == a.tag \o ":" \o Digits(a.v) \o "[" \o EntryNames(a.items) \o "]"

\* the plain objects a caller of this model hands over
Scalars == {PyNone, PyBool(TRUE), PyLong(1), PyLong(F64Exact + 1), PyFloat(3), One, Two}
PyObjects ==
    Scalars
    \cup {PyList(<<Entry(<<>>, o)>>) : o \in {PyNone, PyBool(TRUE), One}}
    \cup {PyList(<<Entry(<<>>, One), Entry(<<>>, PyLong(1))>>)}
    \cup {PyDict(<<Entry(<<107>>, o)>>) : o \in {PyBool(TRUE), PyLong(1)}}

\* the JSON-like values a document of this model can hold
AnyValues == {py_into_any(AnyValue(o))[1] :
                 o \in {x \in PyObjects : py_into_any(AnyValue(x)) # <<>>}}

\* the JSON-like value kept under a written form
Loaded(name) == CHOOSE a \in AnyValues : Stored(a) = name

\* the scalar cases of AnyWrapper::into_py
ScalarIntoPy(tag, v) ==
    IF tag \in {"Null", "Undefined"} THEN PyNone
    ELSE IF tag = "Bool" THEN PyBool(v[1] = 1)
    ELSE IF tag = "Number" THEN PyFloat(v[1])
    ELSE IF tag = "BigInt" THEN PyLong(v[1])
    ELSE PyString(v)

\* AnyWrapper::into_py: the Python object of a JSON-like value (Any::Buffer,
\* which py_into_any never makes, is not handled by the code)
AnyWrapper_into_py(a) ==
    IF a.tag = "Array"
    THEN PyList([k \in DOMAIN a.items |->
                    Entry(a.items[k].key, ScalarIntoPy(a.items[k].tag, a.items[k].v))])
    ELSE IF a.tag = "Map"
    THEN PyDict([k \in DOMAIN a.items |->
                    Entry(a.items[k].key, ScalarIntoPy(a.items[k].tag, a.items[k].v))])
    ELSE ScalarIntoPy(a.tag, a.v)

\* Shared::extract: the object is a YText or a YArray
Shared_extract(el) == el.kind = "shared"

\* Shared::is_prelim
Shared_is_prelim(hs, el) == YText_prelim(hs, el.h)

\* Shared::type_ref
Shared_type_ref(hs, el) == hs[el.h].kind

CannotIntegrate == "Cannot integrate this type"
BorrowError == "already mutably borrowed"
Unreachable == "internal error: entered unreachable code"

\* PyObjectWrapper::into_content that takes a shared type in whatever form
IntoContentUnchecked(hs, busy, el) ==
    IF py_into_any(el) # <<>>
    THEN [error |-> "", kind |-> "any", val |-> Stored(py_into_any(el)[1])]
    ELSE IF Shared_extract(el)
    THEN [error |-> "", kind |-> "type", val |-> Shared_type_ref(hs, el)]
    ELSE [error |-> CannotIntegrate, kind |-> "", val |-> ""]

\* PyObjectWrapper::into_content.  `busy` is the YArray whose cell the running
\* method holds mutably borrowed: asking it whether it is preliminary panics.
PyObjectWrapper_into_content(hs, busy, el) ==
    IF py_into_any(el) # <<>>
    THEN [error |-> "", kind |-> "any", val |-> Stored(py_into_any(el)[1])]
    ELSE IF Shared_extract(el)
    THEN IF el.h = busy
         THEN [error |-> BorrowError, kind |-> "", val |-> ""]
         ELSE IF Shared_is_prelim(hs, el)
         THEN [error |-> "", kind |-> "type", val |-> Shared_type_ref(hs, el)]
         ELSE [error |-> CannotIntegrate, kind |-> "", val |-> ""]
    ELSE [error |-> CannotIntegrate, kind |-> "", val |-> ""]

\* yrs Array::insert_range: one block of JSON-like values
Array_insert_range(st, c, p, index, vals) ==
    InsertRun(st, c, p, index, "any", [i \in DOMAIN vals |-> Stored(vals[i])])

\* yrs Text::push: append the chunk, nothing for an empty one
Text_push(st, c, p, chunk) ==
    IF chunk = <<>> THEN st
    ELSE InsertRun(st, c, p, BranchLen(st, p), "string", chunk)

\* the length of the longest prefix of `src` made of JSON-like values
RECURSIVE AnyPrefix(_)
AnyPrefix(src) ==
    IF src = <<>> \/ py_into_any(src[1]) = <<>> THEN 0
    ELSE 1 + AnyPrefix(Tail(src))

RECURSIVE insert_at(_, _, _, _, _, _)
RECURSIVE PyObjectWrapper_integrate(_, _, _, _, _)

\* yrs Array::insert(txn, index, value) for a Prelim value: the item is made
\* from value.into_content, linked in, and the value is then told to
\* integrate itself into the branch of the new item.
Array_insert(S, c, busy, p, index, el) ==
    LET content == PyObjectWrapper_into_content(S.hs, busy, el)
        id == <<c, GetState(S.st, c)>>
        st1 == InsertRun(S.st, c, p, index, content.kind, <<content.val>>)
    IN IF content.error # "" THEN [S EXCEPT !.error = content.error]
       ELSE IF content.kind = "type"
       THEN PyObjectWrapper_integrate([S EXCEPT !.st = st1], c, busy, el, Nested(id))
       ELSE [S EXCEPT !.st = st1]

\* PyObjectWrapper::integrate that switches the cell and forgets the value
IntegrateWithoutReplay(S, c, busy, el, inner_ref) ==
    IF ~(Shared_extract(el) /\ Shared_is_prelim(S.hs, el)) THEN S
    ELSE [S EXCEPT !.hs[el.h] =
             [@ EXCEPT !.prelim = FALSE, !.text = <<>>, !.items = <<>>,
                       !.branch = inner_ref]]

\* PyObjectWrapper::integrate: the cell is switched to Integrated(inner_ref)
\* and the preliminary value it held is replayed into the branch.
PyObjectWrapper_integrate(S, c, busy, el, inner_ref) ==
    IF ~(Shared_extract(el) /\ Shared_is_prelim(S.hs, el)) THEN S
    ELSE LET v == S.hs[el.h]
             hs1 == [S.hs EXCEPT ![el.h] =
                        [v EXCEPT !.prelim = FALSE, !.text = <<>>, !.items = <<>>,
                                  !.branch = inner_ref]]
         IN IF v.kind = "text"
            THEN [S EXCEPT !.hs = hs1, !.st = Text_push(S.st, c, inner_ref, v.text)]
            ELSE insert_at([S EXCEPT !.hs = hs1], c, busy, inner_ref,
                           BranchLen(S.st, inner_ref), v.items)

\* insert_at that puts every run and every object at the index it was given
RECURSIVE InsertAtSameIndex(_, _, _, _, _, _)
InsertAtSameIndex(S, c, busy, dst, index, src) ==
    IF S.error # "" \/ src = <<>> THEN S
    ELSE LET n == AnyPrefix(src)
             anys == [i \in 1..n |-> py_into_any(src[i])[1]]
         IN IF n > 0
            THEN InsertAtSameIndex(
                     [S EXCEPT !.st = Array_insert_range(S.st, c, dst, index, anys)],
                     c, busy, dst, index, SubSeq(src, n + 1, Len(src)))
            ELSE InsertAtSameIndex(Array_insert(S, c, busy, dst, index, src[1]),
                                   c, busy, dst, index, Tail(src))

\* insert_at that inserts every JSON-like value as a block of its own
RECURSIVE InsertAtOneByOne(_, _, _, _, _, _)
InsertAtOneByOne(S, c, busy, dst, index, src) ==
    IF S.error # "" \/ src = <<>> THEN S
    ELSE IF py_into_any(src[1]) # <<>>
    THEN InsertAtOneByOne(
             [S EXCEPT !.st = Array_insert_range(S.st, c, dst, index,
                                                 <<py_into_any(src[1])[1]>>)],
             c, busy, dst, index + 1, Tail(src))
    ELSE InsertAtOneByOne(Array_insert(S, c, busy, dst, index, src[1]),
                          c, busy, dst, index + 1, Tail(src))

\* insert_at: runs of JSON-like values go in as one block each, every other
\* object is inserted on its own.  A panic leaves what was done before it.
insert_at(S, c, busy, dst, index, src) ==
    IF S.error # "" \/ src = <<>> THEN S
    ELSE LET n == AnyPrefix(src)
             anys == [i \in 1..n |-> py_into_any(src[i])[1]]
         IN IF n > 0
            THEN insert_at([S EXCEPT !.st = Array_insert_range(S.st, c, dst, index, anys)],
                           c, busy, dst, index + n, SubSeq(src, n + 1, Len(src)))
            ELSE insert_at(Array_insert(S, c, busy, dst, index, src[1]),
                           c, busy, dst, index + 1, Tail(src))

InsertSeq(vec, index, items) ==
    SubSeq(vec, 1, index) \o items \o SubSeq(vec, index + 1, Len(vec))

Drain(vec, index, length) ==
    SubSeq(vec, 1, index) \o SubSeq(vec, index + length + 1, Len(vec))

\* the Prelim arm of YArray::insert that also marks the objects it stores as
\* integrated
YArrayInsertPrelimPromoting(hs, h, index, items) ==
    [i \in DOMAIN hs |->
        IF i = h THEN [hs[i] EXCEPT !.items = InsertSeq(@, index, items)]
        ELSE IF \E k \in DOMAIN items : items[k] = Ref(i)
        THEN [hs[i] EXCEPT !.prelim = FALSE]
        ELSE hs[i]]

\* YArray::insert, the Prelim arm: the objects are stored in the local vector
YArray_insert_prelim(hs, h, index, items) ==
    [hs EXCEPT ![h].items = InsertSeq(@, index, items)]

\* YArray::insert(txn, index, items)
YArray_insert(hs, st, c, h, index, items) ==
    IF hs[h].prelim
    THEN [hs |-> YArray_insert_prelim(hs, h, index, items), st |-> st, error |-> ""]
    ELSE insert_at([hs |-> hs, st |-> st, error |-> ""], c, h, hs[h].branch,
                   index, items)

\* YArray::delete whose preliminary arm drains every preliminary array that
\* is long enough
YArrayDeleteAliased(hs, st, h, index, length) ==
    IF hs[h].prelim
    THEN [hs |-> [g \in DOMAIN hs |->
                    IF hs[g].prelim /\ hs[g].kind = "array"
                          /\ index + length <= Len(hs[g].items)
                    THEN [hs[g] EXCEPT !.items = Drain(@, index, length)]
                    ELSE hs[g]],
          st |-> st]
    ELSE [hs |-> hs, st |-> RemoveRange(st, hs[h].branch, index, length)]

\* YArray::delete(txn, index, length)
YArray_delete(hs, st, h, index, length) ==
    IF hs[h].prelim
    THEN [hs |-> [hs EXCEPT ![h].items = Drain(@, index, length)], st |-> st]
    ELSE [hs |-> hs, st |-> RemoveRange(st, hs[h].branch, index, length)]

\* the document the shared types of this part live in
SharedDoc == Min(Docs)

\* the objects a caller can put into a list
Elements == {AnyValue(One)} \cup {Ref(h) : h \in DOMAIN handles}
ItemLists == UNION {[1..n -> Elements] : n \in 1..MaxRun}

IsArray(h) == h \in DOMAIN handles /\ handles[h].kind = "array"
IsText(h) == h \in DOMAIN handles /\ handles[h].kind = "text"

\* text = YText(init)
NewText(init) ==
    /\ Len(handles) < MaxHandles
    /\ handles' = Append(handles, YText_new(init))
    /\ err' = NoError
    /\ UNCHANGED <<store, txns, net, edits, readers, call>>

\* array = YArray(init)
NewArray(init) ==
    /\ Len(handles) < MaxHandles
    /\ handles' = Append(handles, YArray_new(init))
    /\ err' = NoError
    /\ UNCHANGED <<store, txns, net, edits, readers, call>>

\* doc.transact(lambda txn: txn.get_array("name"))
GetArray(d) ==
    /\ Len(handles) < MaxHandles
    /\ LET b == YDoc_begin_transaction(txns[d])
       IN /\ b.ok
          /\ LET st1 == Transaction_get_root(store[d], "name", "array")
                 r == YTransaction_drop(st1, b.txns, Len(b.txns))
             IN /\ store' = [store EXCEPT ![d] = r.store]
                /\ txns' = [txns EXCEPT ![d] = r.txns]
    /\ handles' = Append(handles, SharedType_new("array", Root("name"), "get_array"))
    /\ err' = NoError
    /\ UNCHANGED <<net, edits, readers, call>>

\* doc.transact(lambda txn: array.insert(txn, index, items))
ArrayInsert(d, h, index, items) ==
    /\ edits[d] < MaxCalls
    /\ IsArray(h)
    /\ index <= YArray_length(handles, store[d], h)
    /\ handles[h].prelim => Len(handles[h].items) + Len(items) <= MaxRun
    /\ LET b == YDoc_begin_transaction(txns[d])
       IN /\ b.ok
          /\ LET S == YArray_insert(handles, store[d], d, h, index, items)
                 r == YTransaction_drop(S.st, b.txns, Len(b.txns))
             IN /\ GetState(S.st, d) <= MaxClock
                /\ handles' = S.hs
                /\ store' = [store EXCEPT ![d] = r.store]
                /\ txns' = [txns EXCEPT ![d] = r.txns]
                /\ err' = IF S.error = "" THEN NoError
                          ELSE Failed("insert", d, S.error)
    /\ edits' = [edits EXCEPT ![d] = @ + 1]
    /\ UNCHANGED <<net, readers, call>>

\* doc.transact(lambda txn: array.push(txn, items))
ArrayPush(d, h, items) ==
    /\ edits[d] < MaxCalls
    /\ IsArray(h)
    /\ handles[h].prelim => Len(handles[h].items) + Len(items) <= MaxRun
    /\ LET b == YDoc_begin_transaction(txns[d])
       IN /\ b.ok
          /\ LET index == YArray_length(handles, store[d], h)
                 S == YArray_insert(handles, store[d], d, h, index, items)
                 r == YTransaction_drop(S.st, b.txns, Len(b.txns))
             IN /\ GetState(S.st, d) <= MaxClock
                /\ handles' = S.hs
                /\ store' = [store EXCEPT ![d] = r.store]
                /\ txns' = [txns EXCEPT ![d] = r.txns]
                /\ err' = IF S.error = "" THEN NoError
                          ELSE Failed("push", d, S.error)
    /\ edits' = [edits EXCEPT ![d] = @ + 1]
    /\ UNCHANGED <<net, readers, call>>

\* doc.transact(lambda txn: array.delete(txn, index, length))
ArrayDelete(d, h, index, length) ==
    /\ edits[d] < MaxCalls
    /\ IsArray(h)
    /\ index + length <= YArray_length(handles, store[d], h)
    /\ LET b == YDoc_begin_transaction(txns[d])
       IN /\ b.ok
          /\ LET S == YArray_delete(handles, store[d], h, index, length)
                 r == YTransaction_drop(S.st, b.txns, Len(b.txns))
             IN /\ handles' = S.hs
                /\ store' = [store EXCEPT ![d] = r.store]
                /\ txns' = [txns EXCEPT ![d] = r.txns]
    /\ err' = NoError
    /\ edits' = [edits EXCEPT ![d] = @ + 1]
    /\ UNCHANGED <<net, readers, call>>

\* PyIndexError raised by YArray::get
IndexError == "Index outside the bounds of an YArray"

\* Array::get(txn, index): the index-th element that is not deleted, if any
Array_get(st, p, index) ==
    LET V == Visible(ListOf(st, p))
    IN IF index < Len(V) THEN <<V[index + 1]>> ELSE <<>>

\* ValueWrapper::into_py: a JSON-like value as itself, a nested text as a new
\* YText object; every other nested type is not handled
ValueWrapper_into_py(it) ==
    IF it.content.kind # "type"
    THEN [error |-> "", value |-> AnyValue(AnyWrapper_into_py(Loaded(it.content.val))),
          branch |-> NoBranch]
    ELSE IF it.content.val = "text"
    THEN [error |-> "", value |-> Ref(0), branch |-> Nested(it.id)]
    ELSE [error |-> Unreachable, value |-> Ref(0), branch |-> NoBranch]

\* YArray::get that counts an index past the end from the start again
YArrayGetWrapping(hs, st, h, index) ==
    LET n == IF hs[h].prelim THEN Len(hs[h].items)
             ELSE Len(Visible(ListOf(st, hs[h].branch)))
        i == IF n = 0 THEN index ELSE index % n
    IN IF hs[h].prelim
       THEN IF i < n
            THEN [error |-> "", value |-> hs[h].items[i + 1], branch |-> NoBranch]
            ELSE [error |-> IndexError, value |-> Ref(0), branch |-> NoBranch]
       ELSE LET value == Array_get(st, hs[h].branch, i)
            IN IF value # <<>> THEN ValueWrapper_into_py(value[1])
               ELSE [error |-> IndexError, value |-> Ref(0), branch |-> NoBranch]

\* YArray::get(txn, index)
YArray_get(hs, st, h, index) ==
    IF hs[h].prelim
    THEN IF index < Len(hs[h].items)
         THEN [error |-> "", value |-> hs[h].items[index + 1], branch |-> NoBranch]
         ELSE [error |-> IndexError, value |-> Ref(0), branch |-> NoBranch]
    ELSE LET value == Array_get(st, hs[h].branch, index)
         IN IF value # <<>> THEN ValueWrapper_into_py(value[1])
            ELSE [error |-> IndexError, value |-> Ref(0), branch |-> NoBranch]

\* doc.transact(lambda txn: array.get(txn, index))
\* A nested text comes back as a new YText object.
ArrayGet(d, h, index) ==
    /\ IsArray(h)
    /\ LET b == YDoc_begin_transaction(txns[d])
           g == YArray_get(handles, store[d], h, index)
       IN /\ b.ok
          /\ LET r == YTransaction_drop(store[d], b.txns, Len(b.txns))
             IN /\ store' = [store EXCEPT ![d] = r.store]
                /\ txns' = [txns EXCEPT ![d] = r.txns]
          /\ IF g.error = "" /\ g.branch # NoBranch
             THEN /\ Len(handles) < MaxHandles
                  /\ handles' = Append(handles, SharedType_new("text", g.branch, "get"))
                  /\ err' = NoError
             ELSE /\ handles' = handles
                  /\ err' = IF g.error = "" THEN NoError ELSE Failed("get", d, g.error)
    /\ UNCHANGED <<net, edits, readers, call>>

\* doc.transact(lambda txn: text.insert(txn, index, chunk))
TextInsert(d, h, index, chunk) ==
    /\ edits[d] < MaxCalls
    /\ IsText(h)
    /\ index <= YArray_length(handles, store[d], h)
    /\ LET b == YDoc_begin_transaction(txns[d])
       IN /\ b.ok
          /\ IF handles[h].prelim
             THEN /\ Len(handles[h].text) + Len(chunk) <= MaxRun
                  /\ handles' = [handles EXCEPT ![h].text = InsertSeq(@, index, chunk)]
                  /\ store' = [store EXCEPT ![d] =
                                  YTransaction_drop(@, b.txns, Len(b.txns)).store]
             ELSE /\ GetState(store[d], d) + Len(chunk) <= MaxClock
                  /\ handles' = handles
                  /\ store' = [store EXCEPT ![d] =
                        YTransaction_drop(
                            YText_insert(@, d, handles[h].branch, index, chunk),
                            b.txns, Len(b.txns)).store]
    /\ err' = NoError
    /\ edits' = [edits EXCEPT ![d] = @ + 1]
    /\ UNCHANGED <<txns, net, readers, call>>

\* doc.transact(lambda txn: text.push(txn, chunk))
TextPush(d, h, chunk) ==
    /\ edits[d] < MaxCalls
    /\ IsText(h)
    /\ LET b == YDoc_begin_transaction(txns[d])
       IN /\ b.ok
          /\ IF handles[h].prelim
             THEN /\ Len(handles[h].text) + Len(chunk) <= MaxRun
                  /\ handles' = [handles EXCEPT ![h].text = @ \o chunk]
                  /\ store' = [store EXCEPT ![d] =
                                  YTransaction_drop(@, b.txns, Len(b.txns)).store]
             ELSE /\ GetState(store[d], d) + Len(chunk) <= MaxClock
                  /\ handles' = handles
                  /\ store' = [store EXCEPT ![d] =
                        YTransaction_drop(
                            Text_push(@, d, handles[h].branch, chunk),
                            b.txns, Len(b.txns)).store]
    /\ err' = NoError
    /\ edits' = [edits EXCEPT ![d] = @ + 1]
    /\ UNCHANGED <<txns, net, readers, call>>

\* doc.transact(lambda txn: text.delete(txn, index, length))
TextDelete(d, h, index, length) ==
    /\ edits[d] < MaxCalls
    /\ IsText(h)
    /\ index + length <= YArray_length(handles, store[d], h)
    /\ LET b == YDoc_begin_transaction(txns[d])
       IN /\ b.ok
          /\ IF handles[h].prelim
             THEN /\ handles' = [handles EXCEPT ![h].text = Drain(@, index, length)]
                  /\ store' = [store EXCEPT ![d] =
                                  YTransaction_drop(@, b.txns, Len(b.txns)).store]
             ELSE /\ handles' = handles
                  /\ store' = [store EXCEPT ![d] =
                        YTransaction_drop(
                            YText_delete(@, handles[h].branch, index, length),
                            b.txns, Len(b.txns)).store]
    /\ err' = NoError
    /\ edits' = [edits EXCEPT ![d] = @ + 1]
    /\ UNCHANGED <<txns, net, readers, call>>

NextShared ==
    \/ \E init \in {<<"a">>} : NewText(init)
    \/ \E init \in {<<>>} : NewArray(init)
    \/ GetArray(SharedDoc)
    \/ \E h \in 1..MaxHandles, index \in 0..MaxClock, items \in ItemLists :
          ArrayInsert(SharedDoc, h, index, items)
    \/ \E h \in 1..MaxHandles, items \in ItemLists : ArrayPush(SharedDoc, h, items)
    \/ \E h \in 1..MaxHandles, index \in 0..MaxClock, length \in 1..MaxRun :
          ArrayDelete(SharedDoc, h, index, length)
    \/ \E h \in 1..MaxHandles, index \in 0..MaxClock : ArrayGet(SharedDoc, h, index)
    \/ \E h \in 1..MaxHandles, index \in 0..MaxClock, chunk \in {<<"b">>} :
          TextInsert(SharedDoc, h, index, chunk)
    \/ \E h \in 1..MaxHandles, chunk \in {<<"b">>} : TextPush(SharedDoc, h, chunk)
    \/ \E h \in 1..MaxHandles, index \in 0..MaxClock, length \in 1..MaxRun :
          TextDelete(SharedDoc, h, index, length)

SpecShared == Init /\ [][NextShared]_vars

\* ------------------------------------------------------- text as UTF-8 bytes
\* A Python str is a sequence of code points; the `chunk: &str` the binding
\* receives and the String it keeps or hands to yrs are its UTF-8 bytes, and
\* every index and length of YText counts bytes.

MaxStr == 2        \* code points in one string of a caller
MaxBytes == 6      \* bytes a text may hold
MaxTexts == 2      \* objects the caller of this part holds
MaxTextCalls == 2  \* calls that edit, in this part

\* one code point of each UTF-8 width: a, e-acute, the euro sign, an emoji
CodePoints == {97, 233, 8364, 128512}
Strings == UNION {[1..n -> CodePoints] : n \in 0..MaxStr}

\* the UTF-8 encoding of one code point
Utf8Char(cp) ==
    IF cp < 128 THEN <<cp>>
    ELSE IF cp < 2048 THEN <<192 + (cp \div 64), 128 + (cp % 64)>>
    ELSE IF cp < 65536
    THEN <<224 + (cp \div 4096), 128 + ((cp \div 64) % 64), 128 + (cp % 64)>>
    ELSE <<240 + (cp \div 262144), 128 + ((cp \div 4096) % 64),
           128 + ((cp \div 64) % 64), 128 + (cp % 64)>>

\* str -> &str: the bytes of a Python string
RECURSIVE Utf8(_)
Utf8(str) == IF str = <<>> THEN <<>> ELSE Utf8Char(Head(str)) \o Utf8(Tail(str))

\* the number of bytes the sequence starting with the byte `b` has
Utf8Width(b) == IF b < 128 THEN 1 ELSE IF b < 224 THEN 2 ELSE IF b < 240 THEN 3 ELSE 4

\* the code point a sequence of `w` bytes encodes
Utf8CodePoint(bytes, w) ==
    IF w = 1 THEN bytes[1]
    ELSE IF w = 2 THEN (bytes[1] - 192) * 64 + (bytes[2] - 128)
    ELSE IF w = 3
    THEN (bytes[1] - 224) * 4096 + (bytes[2] - 128) * 64 + (bytes[3] - 128)
    ELSE (bytes[1] - 240) * 262144 + (bytes[2] - 128) * 4096
            + (bytes[3] - 128) * 64 + (bytes[4] - 128)

\* String -> str: the code points of a Rust string
RECURSIVE FromUtf8(_)
FromUtf8(bytes) ==
    IF bytes = <<>> THEN <<>>
    ELSE LET w == Min({Utf8Width(bytes[1]), Len(bytes)})
         IN <<Utf8CodePoint(bytes, w)>> \o FromUtf8(SubSeq(bytes, w + 1, Len(bytes)))

\* str::is_char_boundary: the start, the end, and every byte that does not
\* continue a sequence
IsCharBoundary(bytes, index) ==
    \/ index = 0
    \/ index = Len(bytes)
    \/ index < Len(bytes) /\ (bytes[index + 1] < 128 \/ bytes[index + 1] >= 192)

\* u32, the type of every index and length, narrowed: values are below U32 and
\* sums wrap around at it
U32 == 16

CharBoundary == "assertion failed: self.is_char_boundary(idx)"
RangeError == "range end index out of range for slice"
OrderError == "slice index starts after it ends"
OverflowError == "attempt to add with overflow"

\* index + length on u32: the sum when it fits; when it does not, a build with
\* overflow checks panics and a build without them wraps around
AddU32(a, b) ==
    IF a + b < U32 THEN {[panic |-> FALSE, sum |-> a + b]}
    ELSE {[panic |-> TRUE, sum |-> 0], [panic |-> FALSE, sum |-> (a + b) % U32]}

\* String::insert_str(idx, chunk)
String_insert_str(v, idx, chunk) ==
    IF ~IsCharBoundary(v, idx) THEN [error |-> CharBoundary, text |-> v]
    ELSE [error |-> "", text |-> InsertSeq(v, idx, chunk)]

\* String::drain that stops at the end of the string
StringDrainClamped(v, start, end) ==
    LET e == Min({end, Len(v)})
    IN IF start > e THEN [error |-> RangeError, text |-> v]
       ELSE IF ~IsCharBoundary(v, start) \/ ~IsCharBoundary(v, e)
       THEN [error |-> CharBoundary, text |-> v]
       ELSE [error |-> "", text |-> Drain(v, start, e - start)]

\* String::drain that takes the ends of the range in either order
StringDrainEitherWay(v, start, end) ==
    LET lo == Min({start, end})
        hi == Max({start, end})
    IN IF hi > Len(v) THEN [error |-> RangeError, text |-> v]
       ELSE IF ~IsCharBoundary(v, lo) \/ ~IsCharBoundary(v, hi)
       THEN [error |-> CharBoundary, text |-> v]
       ELSE [error |-> "", text |-> Drain(v, lo, hi - lo)]

\* String::drain(start..end), dropped at once: the range is checked against
\* the length, then against the character boundaries, then removed
String_drain(v, start, end) ==
    IF start > end THEN [error |-> OrderError, text |-> v]
    ELSE IF end > Len(v) THEN [error |-> RangeError, text |-> v]
    ELSE IF ~IsCharBoundary(v, start) \/ ~IsCharBoundary(v, end)
    THEN [error |-> CharBoundary, text |-> v]
    ELSE [error |-> "", text |-> Drain(v, start, end - start)]

\* Vec::drain(start..end), dropped at once
Vec_drain(vec, start, end) ==
    IF start > end THEN [error |-> OrderError, items |-> vec]
    ELSE IF end > Len(vec) THEN [error |-> RangeError, items |-> vec]
    ELSE [error |-> "", items |-> Drain(vec, start, end - start)]

\* YText::delete, the Prelim arm: v.drain(index..(index + length)), the sum
\* taken on u32
YText_delete_prelim(v, index, length) ==
    {IF o.panic THEN [error |-> OverflowError, text |-> v]
     ELSE String_drain(v, index, o.sum) : o \in AddU32(index, length)}

\* YArray::delete, the Prelim arm: the same on the vector of objects
YArray_delete_prelim(vec, index, length) ==
    {IF o.panic THEN [error |-> OverflowError, items |-> vec]
     ELSE Vec_drain(vec, index, o.sum) : o \in AddU32(index, length)}

\* the bytes a YText holds
YText_bytes(hs, st, h) ==
    IF hs[h].prelim THEN hs[h].text
    ELSE LET V == SelectSeq(Visible(ListOf(st, hs[h].branch)),
                            LAMBDA it : it.content.kind = "string")
         IN [i \in 1..Len(V) |-> V[i].content.val]

\* YText::to_string, as the caller receives it
YText_to_string(hs, st, h) == FromUtf8(YText_bytes(hs, st, h))

\* YText::length that counts characters
YTextLengthChars(hs, st, h) == Len(FromUtf8(YText_bytes(hs, st, h)))

\* YText::length
YText_length(hs, st, h) ==
    IF hs[h].prelim THEN Len(hs[h].text) ELSE BranchLen(st, hs[h].branch)

\* the name a root of each kind is looked up under
NameOf(kind) == IF kind = "text" THEN "name" ELSE "list"

\* the names a caller looks roots up under
LookupNames == {NameOf("text"), NameOf("array")}

\* the object is preliminary, nested, or of the kind its root was created as
Native(hs, st, h) ==
    \/ hs[h].prelim
    \/ hs[h].branch.root = ""
    \/ (hs[h].branch.root \in DOMAIN st.roots
           /\ st.roots[hs[h].branch.root] = hs[h].kind)

\* handle = doc.get_text(name) / doc.get_array(name), and the same on a
\* transaction: doc.transact(lambda txn: txn.get_text(name))
GetRoot(d, kind, name, ctor) ==
    /\ Len(handles) < MaxTexts
    /\ LET r == YDoc_get_root(store[d], txns[d], name, kind)
       IN /\ store' = [store EXCEPT ![d] = r.store]
          /\ handles' = IF r.ok
                        THEN Append(handles,
                                    SharedType_new(kind, Root(name), ctor))
                        ELSE handles
          /\ err' = IF r.ok THEN NoError
                    ELSE Failed(IF kind = "text" THEN "get_text" ELSE "get_array",
                                d, AlreadyBorrowed)
    /\ UNCHANGED <<txns, net, edits, readers, call>>

\* doc.transact(lambda txn: text.insert(txn, index, str))
\* On an integrated text the index is within the text and between characters.
TextInsertStr(d, h, index, str) ==
    /\ edits[d] < MaxTextCalls
    /\ IsText(h)
    /\ Native(handles, store[d], h)
    /\ YText_length(handles, store[d], h) + Len(Utf8(str)) <= MaxBytes
    /\ LET b == YDoc_begin_transaction(txns[d])
           chunk == Utf8(str)
       IN /\ b.ok
          /\ IF handles[h].prelim
             THEN LET r == String_insert_str(handles[h].text, index, chunk)
                  IN /\ handles' = [handles EXCEPT ![h].text = r.text]
                     /\ store' = [store EXCEPT ![d] =
                                     YTransaction_drop(@, b.txns, Len(b.txns)).store]
                     /\ err' = IF r.error = "" THEN NoError
                               ELSE Failed("insert", d, r.error)
             ELSE /\ index <= BranchLen(store[d], handles[h].branch)
                  /\ IsCharBoundary(BranchContent(store[d], handles[h].branch), index)
                  /\ handles' = handles
                  /\ store' = [store EXCEPT ![d] =
                        YTransaction_drop(
                            YText_insert(@, d, handles[h].branch, index, chunk),
                            b.txns, Len(b.txns)).store]
                  /\ err' = NoError
    /\ edits' = [edits EXCEPT ![d] = @ + 1]
    /\ UNCHANGED <<txns, net, readers, call>>

\* doc.transact(lambda txn: text.delete(txn, index, length))
\* The preliminary arm adds index and length as u32 before it widens the sum.
\* On an integrated text the range is within the text
\* and between characters: what Text::remove_range does with any other range
\* is not part of this model.
TextDeleteRange(d, h, index, length) ==
    /\ edits[d] < MaxTextCalls
    /\ IsText(h)
    /\ Native(handles, store[d], h)
    /\ LET b == YDoc_begin_transaction(txns[d])
       IN /\ b.ok
          /\ IF handles[h].prelim
             THEN \E r \in YText_delete_prelim(handles[h].text, index, length) :
                     /\ handles' = [handles EXCEPT ![h].text = r.text]
                     /\ store' = [store EXCEPT ![d] =
                                     YTransaction_drop(@, b.txns, Len(b.txns)).store]
                     /\ err' = IF r.error = "" THEN NoError
                               ELSE Failed("delete", d, r.error)
             ELSE /\ index + length <= BranchLen(store[d], handles[h].branch)
                  /\ IsCharBoundary(BranchContent(store[d], handles[h].branch), index)
                  /\ IsCharBoundary(BranchContent(store[d], handles[h].branch),
                                    index + length)
                  /\ handles' = handles
                  /\ store' = [store EXCEPT ![d] =
                        YTransaction_drop(
                            YText_delete(@, handles[h].branch, index, length),
                            b.txns, Len(b.txns)).store]
                  /\ err' = NoError
    /\ edits' = [edits EXCEPT ![d] = @ + 1]
    /\ UNCHANGED <<txns, net, readers, call>>

\* doc.transact(lambda txn: array.push(txn, [value]))
RootArrayPush(d, h) ==
    /\ edits[d] < MaxTextCalls
    /\ IsArray(h)
    /\ Native(handles, store[d], h)
    /\ GetState(store[d], d) < MaxBytes
    /\ LET b == YDoc_begin_transaction(txns[d])
           S == YArray_insert(handles, store[d], d, h,
                              YArray_length(handles, store[d], h), <<AnyValue(One)>>)
       IN /\ b.ok
          /\ handles' = S.hs
          /\ store' = [store EXCEPT ![d] =
                          YTransaction_drop(S.st, b.txns, Len(b.txns)).store]
    /\ err' = NoError
    /\ edits' = [edits EXCEPT ![d] = @ + 1]
    /\ UNCHANGED <<txns, net, readers, call>>

\* doc.transact(lambda txn: array.delete(txn, index, length))
\* On an integrated array the range is within the array.
ArrayDeleteRange(d, h, index, length) ==
    /\ edits[d] < MaxTextCalls
    /\ IsArray(h)
    /\ Native(handles, store[d], h)
    /\ LET b == YDoc_begin_transaction(txns[d])
       IN /\ b.ok
          /\ IF handles[h].prelim
             THEN \E r \in YArray_delete_prelim(handles[h].items, index, length) :
                     /\ handles' = [handles EXCEPT ![h].items = r.items]
                     /\ store' = [store EXCEPT ![d] =
                                     YTransaction_drop(@, b.txns, Len(b.txns)).store]
                     /\ err' = IF r.error = "" THEN NoError
                               ELSE Failed("delete", d, r.error)
             ELSE /\ index + length <= BranchLen(store[d], handles[h].branch)
                  /\ handles' = handles
                  /\ store' = [store EXCEPT ![d] =
                        YTransaction_drop(
                            RemoveRange(@, handles[h].branch, index, length),
                            b.txns, Len(b.txns)).store]
                  /\ err' = NoError
    /\ edits' = [edits EXCEPT ![d] = @ + 1]
    /\ UNCHANGED <<txns, net, readers, call>>

\* the lists a caller of this part builds arrays from
Primitives == {<<>>, <<AnyValue(One), AnyValue(Two)>>}

\* the lengths a caller asks to delete: short ones and the largest u32
Lengths == (1..MaxBytes) \cup {U32 - 1}

NextText ==
    \/ \E str \in {<<>>} : Len(handles) < MaxTexts /\ NewText(Utf8(str))
    \/ \E kind \in {"text", "array"}, ctor \in {"doc.get", "txn.get"} :
          \E name \in LookupNames : GetRoot(SharedDoc, kind, name, ctor)
    \/ \E h \in 1..MaxTexts, index \in 0..MaxBytes, str \in Strings :
          TextInsertStr(SharedDoc, h, index, str)
    \/ \E h \in 1..MaxTexts, index \in 0..MaxBytes, length \in Lengths :
          TextDeleteRange(SharedDoc, h, index, length)
    \/ \E h \in 1..MaxTexts : RootArrayPush(SharedDoc, h)
    \/ \E init \in Primitives : Len(handles) < MaxTexts /\ NewArray(init)
    \/ \E h \in 1..MaxTexts, index \in 0..MaxBytes, length \in Lengths :
          ArrayDeleteRange(SharedDoc, h, index, length)

SpecText == Init /\ [][NextText]_vars

\* ------------------------------------------------------------ scoped blocks
\* with doc.begin_transaction() as txn: ...   The block enters with the object
\* begin_transaction returned (__enter__ hands it back as it is) and leaves
\* through __exit__, after the body has completed or has raised.

\* YTransaction::__exit__: self.commit(); drop(self), which drops the borrowed
\* reference `self` and not the YTransaction; return true, which tells the
\* interpreter that the exception of the body, if any, is dealt with.
YTransaction_exit(st, ts, i) ==
    [store |-> YTransaction_commit(st),
     txns |-> SetTxn(ts, i, [committed |-> TRUE, changed |-> FALSE]),
     suppress |-> TRUE]

\* the block over the transaction `i` of `d` is left; the body has raised when
\* the last call in it failed
TxnExit(d, i) ==
    /\ i \in DOMAIN txns[d]
    /\ LET r == YTransaction_exit(store[d], txns[d], i)
       IN /\ store' = [store EXCEPT ![d] = r.store]
          /\ txns' = [txns EXCEPT ![d] = r.txns]
          /\ err' = IF r.suppress THEN [call |-> "__exit__", doc |-> d, error |-> ""]
                    ELSE [err EXCEPT !.call = "__exit__"]
    /\ readers' = Under(readers, d, "committed")
    /\ UNCHANGED <<net, edits, handles, call>>

NextScope ==
    \/ \E d \in Docs : BeginTransaction(d)
    \/ \E d \in Docs, i \in Slots, index \in 0..MaxClock, k \in 1..MaxRun :
          TxnInsert(d, i, index, k)
    \/ \E d \in Docs, i \in Slots : TxnExit(d, i)
    \/ \E d \in Docs, i \in Slots : TxnFree(d, i)

SpecScope == Init /\ [][NextScope]_vars

\* -------------------------------------------------------- values() readers
\* it = array.values(txn); it.next() on a preliminary array, it.__next__() on
\* an integrated one. Both answer with an IteratorNext and never raise
\* StopIteration.

MaxReaders == 1    \* iterators the caller of this part holds
MaxObjects == 2    \* YText / YArray objects the caller of this part holds
MaxPushes == 1     \* calls that fill an array, in this part


\* IteratorNext::new / IteratorNext::finished
IteratorNext_new(value) == [value |-> <<value>>, done |-> FALSE]
IteratorNext_finished == [value |-> <<>>, done |-> TRUE]

\* the Python object a ValueWrapper has become: a JSON-like value, or a YText
\* over the nested branch
PyValue(w) == [value |-> w.value, branch |-> w.branch]

\* YArray::values: an iterator over the Vec of a preliminary array, or the
\* ArrayIter of an integrated one, both with their lifetimes erased
YArray_values(hs, d, h) ==
    [array |-> h, prelim |-> hs[h].prelim, doc |-> d, txn |-> "open",
     pos |-> 0, last |-> <<>>]

\* PrelimArrayIterator::next: the next element of the slice, cloned
PrelimArrayIterator_next(hs, r) ==
    LET v == hs[r.array].items
    IN IF r.pos < Len(v)
       THEN [pos |-> r.pos + 1, error |-> "",
             result |-> IteratorNext_new([value |-> v[r.pos + 1], branch |-> NoBranch])]
       ELSE [pos |-> r.pos, error |-> "", result |-> IteratorNext_finished]

\* ArrayIter::next: the next element that is not deleted, if any
ArrayIter_next(st, p, pos) == Array_get(st, p, pos)

\* YArrayIterator::__next__: slf.0.next().into(), where From<Option<Value>>
\* turns None into finished() and Some(v) into new(ValueWrapper(v).into_py)
YArrayIterator_next(hs, st, r) ==
    LET value == ArrayIter_next(st, hs[r.array].branch, r.pos)
    IN IF value = <<>>
       THEN [pos |-> r.pos, error |-> "", result |-> IteratorNext_finished]
       ELSE LET w == ValueWrapper_into_py(value[1])
            IN [pos |-> r.pos + 1, error |-> w.error,
                result |-> IF w.error = "" THEN IteratorNext_new(PyValue(w))
                           ELSE IteratorNext_finished]

\* the process is stopped by the operating system
Crash == "segmentation fault"

\* what a call through a reference to a transaction that is gone can do: what
\* it would have done, report the end, or stop the process
Dangling(hs, st, r) ==
    {YArrayIterator_next(hs, st, r),
     [pos |-> r.pos, error |-> "", result |-> IteratorNext_finished],
     [pos |-> r.pos, error |-> Crash, result |-> IteratorNext_finished]}

\* it = array.values(txn), with the transaction `i` of `d`
Values(d, i, h) ==
    /\ i \in DOMAIN txns[d]
    /\ IsArray(h)
    /\ Len(readers) < MaxReaders
    /\ readers' = Append(readers, YArray_values(handles, d, h))
    /\ err' = NoError
    /\ UNCHANGED <<store, txns, net, edits, handles, call>>

\* it.next() / it.__next__()
ReaderNext(k) ==
    /\ k \in DOMAIN readers
    /\ LET r == readers[k]
           outcomes == IF r.prelim THEN {PrelimArrayIterator_next(handles, r)}
                       ELSE IF r.txn = "released"
                       THEN Dangling(handles, store[r.doc], r)
                       ELSE {YArrayIterator_next(handles, store[r.doc], r)}
       IN \E o \in outcomes :
             /\ readers' = [readers EXCEPT ![k] =
                               [@ EXCEPT !.pos = o.pos, !.last = <<o.result>>]]
             /\ err' = IF o.error = "" THEN NoError
                       ELSE Failed("next", r.doc, o.error)
    /\ UNCHANGED <<store, txns, net, edits, handles, call>>

\* The arrays are built before an iterator is taken: an iterator over a
\* preliminary array points into its Vec, which a later insert may move.
Building == readers = <<>> /\ Len(handles) < MaxObjects

NextReader ==
    \/ \E init \in {<<"a">>} : Building /\ NewText(init)
    \/ \E init \in Primitives : Building /\ NewArray(init)
    \/ Building /\ GetArray(SharedDoc)
    \/ \E h \in 1..MaxObjects, items \in ItemLists :
          /\ readers = <<>>
          /\ edits[SharedDoc] < MaxPushes
          /\ ArrayPush(SharedDoc, h, items)
    \/ BeginTransaction(SharedDoc)
    \/ \E i \in Slots : TxnCommit(SharedDoc, i)
    \/ \E i \in Slots : TxnFree(SharedDoc, i)
    \/ \E i \in Slots, h \in 1..MaxObjects : Values(SharedDoc, i, h)
    \/ \E k \in 1..MaxReaders : ReaderNext(k)

SpecReader == Init /\ [][NextReader]_vars

\* ------------------------------------------------------ JSON-like values
\* doc.transact(lambda txn: array.insert(txn, index, [o])) with a plain
\* object `o`, and array.get(txn, index)

MaxArrays == 1     \* YArray objects the caller of this part holds

NextAny ==
    \/ Len(handles) < MaxArrays /\ GetArray(SharedDoc)
    \/ \E h \in 1..MaxArrays, index \in 0..MaxClock, o \in PyObjects :
          ArrayInsert(SharedDoc, h, index, <<AnyValue(o)>>)
    \/ \E h \in 1..MaxArrays, index \in 0..MaxClock : ArrayGet(SharedDoc, h, index)

SpecAny == Init /\ [][NextAny]_vars

\* ------------------------------------------------------- insert_at, stepwise
\* doc.transact(lambda txn: array.insert(txn, index, items)) on an integrated
\* array, one pass of the outer loop of insert_at at a time.  `call` holds the
\* arguments, the cursor `i` into src and the position `j`.

\* a pass of the outer loop that leaves the cursor on the object it inserted
InsertAtPassStaying(S, c, busy, dst, j, src, i) ==
    LET rest == SubSeq(src, i + 1, Len(src))
        n == AnyPrefix(rest)
        anys == [k \in 1..n |-> py_into_any(rest[k])[1]]
    IN IF n > 0
       THEN [S |-> [S EXCEPT !.st = Array_insert_range(S.st, c, dst, j, anys)],
             i |-> i + n, j |-> j + n]
       ELSE [S |-> Array_insert(S, c, busy, dst, j, src[i + 1]),
             i |-> i, j |-> j + 1]

\* one pass of the outer loop of insert_at: the inner loop collects the values
\* from the cursor on that py_into_any converts; they go in by one
\* insert_range, or, when there is none, the object at the cursor by insert
insert_at_pass(S, c, busy, dst, j, src, i) ==
    LET rest == SubSeq(src, i + 1, Len(src))
        n == AnyPrefix(rest)
        anys == [k \in 1..n |-> py_into_any(rest[k])[1]]
    IN IF n > 0
       THEN [S |-> [S EXCEPT !.st = Array_insert_range(S.st, c, dst, j, anys)],
             i |-> i + n, j |-> j + n]
       ELSE [S |-> Array_insert(S, c, busy, dst, j, src[i + 1]),
             i |-> i + 1, j |-> j + 1]

\* YArray::insert on an integrated array enters insert_at: i = 0, j = index
InsertEnter(d, h, index, items) ==
    /\ call = NoCall
    /\ edits[d] < MaxCalls
    /\ IsArray(h) /\ ~handles[h].prelim
    /\ index <= YArray_length(handles, store[d], h)
    /\ GetState(YArray_insert(handles, store[d], d, h, index, items).st, d) <= MaxClock
    /\ LET b == YDoc_begin_transaction(txns[d])
       IN /\ b.ok
          /\ txns' = [txns EXCEPT ![d] = b.txns]
    /\ call' = [h |-> h, index |-> index, src |-> items, i |-> 0, j |-> index]
    /\ edits' = [edits EXCEPT ![d] = @ + 1]
    /\ err' = NoError
    /\ UNCHANGED <<store, net, handles, readers>>

\* `while i < src.len()`: one pass; a panic in it ends the call, and the
\* transaction is released on the way out
InsertPass(d) ==
    /\ call # NoCall
    /\ call.i < Len(call.src)
    /\ LET r == insert_at_pass([hs |-> handles, st |-> store[d], error |-> ""], d,
                               call.h, handles[call.h].branch, call.j, call.src, call.i)
       IN /\ handles' = r.S.hs
          /\ IF r.S.error = ""
             THEN /\ call' = [call EXCEPT !.i = r.i, !.j = r.j]
                  /\ store' = [store EXCEPT ![d] = r.S.st]
                  /\ err' = NoError
                  /\ UNCHANGED txns
             ELSE LET t == YTransaction_drop(r.S.st, txns[d], Len(txns[d]))
                  IN /\ call' = NoCall
                     /\ store' = [store EXCEPT ![d] = t.store]
                     /\ txns' = [txns EXCEPT ![d] = t.txns]
                     /\ err' = Failed("insert", d, r.S.error)
    /\ UNCHANGED <<net, edits, readers>>

\* the loop condition fails: insert_at returns and the transaction is released
InsertReturn(d) ==
    /\ call # NoCall
    /\ call.i >= Len(call.src)
    /\ LET t == YTransaction_drop(store[d], txns[d], Len(txns[d]))
       IN /\ store' = [store EXCEPT ![d] = t.store]
          /\ txns' = [txns EXCEPT ![d] = t.txns]
    /\ call' = NoCall
    /\ err' = NoError
    /\ UNCHANGED <<net, edits, handles, readers>>

\* the caller does nothing else while the call runs
NextLoop ==
    \/ \E init \in {<<"a">>} : call = NoCall /\ NewText(init)
    \/ \E init \in {<<>>} : call = NoCall /\ NewArray(init)
    \/ call = NoCall /\ GetArray(SharedDoc)
    \/ \E h \in 1..MaxHandles, index \in 0..MaxClock, items \in ItemLists :
          InsertEnter(SharedDoc, h, index, items)
    \/ InsertPass(SharedDoc)
    \/ InsertReturn(SharedDoc)

SpecLoop == Init /\ [][NextLoop]_vars

\* a call that has been entered goes on running
SpecLoopFair ==
    SpecLoop /\ WF_vars(InsertPass(SharedDoc)) /\ WF_vars(InsertReturn(SharedDoc))

\* ================================================================== claims
\* the kind of JSON-like value an object of each Python type is kept as, and
\* the Python type a JSON-like value of each kind is read as
KindOf == [NoneType |-> "Null", bool |-> "Bool", int |-> "BigInt",
           float |-> "Number", str |-> "String", list |-> "Array", dict |-> "Map"]
TypeOf == [Null |-> "NoneType", Bool |-> "bool", BigInt |-> "int",
           Number |-> "float", String |-> "str", Array |-> "list", Map |-> "dict"]

\* the JSON-like value that is the same value of the same kind as the object,
\* element by element for a list and a dict
JsonOf(o) ==
    [tag |-> KindOf[o.type], v |-> o.v,
     items |-> [k \in DOMAIN o.items |->
                  [key |-> o.items[k].key, tag |-> KindOf[o.items[k].type],
                   v |-> o.items[k].v]]]

\* the Python object that is the same value of the same kind as the
\* JSON-like value
ObjectOf(a) ==
    [type |-> TypeOf[a.tag], v |-> a.v,
     items |-> [k \in DOMAIN a.items |->
                  [key |-> a.items[k].key, type |-> TypeOf[a.items[k].tag],
                   v |-> a.items[k].v]]]

\* to_string of every root text / the elements of every root array
RootContent(st) == [n \in RootNames |-> BranchContent(st, Root(n))]

\* content and length of every shared type, and the state vector
Reading(st) ==
    [content |-> RootContent(st),
     length |-> [n \in RootNames |-> BranchLen(st, Root(n))],
     sv |-> StateVector(st)]

IdsOf(st) == {it.id : it \in AllItems(st)}
PayloadIds(payload) == {it.id : it \in Range(payload.structs)}

\* the calls a document makes through a transaction of its own
InternalCalls == {"get_text", "get_array", "encode_state_vector",
                  "encode_state_as_update", "apply_update"}

\* C1: a document never has more than one open transaction, whether the
\* transactions were opened by begin_transaction, by transact, or by the
\* document for one of its own calls.
C1_OneOpenTransaction == \A d \in Docs : Len(txns[d]) <= 1

\* a transaction is open and a call that needs one of its own was refused
C1_Witness ==
    \E d \in Docs :
        /\ Len(txns[d]) = 1
        /\ err.doc = d
        /\ err.call \in InternalCalls

\* C2: while a transaction is open on a document, begin_transaction on that
\* document does not succeed, whether or not the open transaction has recorded
\* changes; the failed call leaves the open transaction and the content of
\* every document as they were.
C2_SecondBeginFails ==
    [][/\ \A d \in Docs :
              txns[d] # <<>> => ~YDoc_begin_transaction(txns[d]).ok
       /\ err'.call = "begin_transaction" => (txns' = txns /\ store' = store)]_vars

\* begin_transaction was refused while the open transaction has pending changes
C2_Witness ==
    \E d \in Docs :
        /\ err = Failed("begin_transaction", d, AlreadyBorrowed)
        /\ Len(txns[d]) = 1
        /\ txns[d][1].changed
        /\ ~txns[d][1].committed
        /\ RootContent(store[d]) # <<>>

\* C3: two replicas with distinct ids that have each applied the other's full
\* update, encoded after the other's last local edit, show the same content in
\* every root type.
C3_Convergence ==
    \A i, j \in DOMAIN net :
        LET a == net[i].from
            b == net[j].from
        IN (/\ a # b
            /\ net[i].full /\ net[j].full
            /\ net[i].fromEdits = edits[a] /\ net[j].fromEdits = edits[b]
            /\ b \in net[i].seenBy /\ a \in net[j].seenBy)
           => RootContent(store[a]) = RootContent(store[b])

\* C3 witness: both replicas edited (inserting at the same place, one of them
\* also deleting), exchanged full updates both ways and the text is not empty.
C3_Witness ==
    \E i, j \in DOMAIN net :
        /\ net[i].from = 1 /\ net[j].from = 2
        /\ net[i].full /\ net[j].full
        /\ net[i].fromEdits = edits[1] /\ net[j].fromEdits = edits[2]
        /\ 2 \in net[i].seenBy /\ 1 \in net[j].seenBy
        /\ edits[1] = MaxEdits /\ edits[2] >= 1
        /\ \E x, y \in AllItems(store[1]) :
              x.id[1] = 1 /\ y.id[1] = 2 /\ x.origin = y.origin
        /\ DeleteSetOf(store[1]) # {}
        /\ Len(RootContent(store[1])["name"]) >= 2

\* C4: applying an update again to a document that has already applied it
\* changes neither content, nor length, nor the state vector.
C4_Idempotent ==
    \A d \in Docs : \A i \in DOMAIN net :
        d \in net[i].seenBy =>
            LET r == apply_update(store[d], txns[d], net[i].payload)
            IN r.ok /\ Reading(r.store) = Reading(store[d])

\* C4 witness: a document has applied an update that carries blocks and
\* deletions, and holds the blocks.
C4_Witness ==
    \E d \in Docs : \E i \in DOMAIN net :
        /\ d \in net[i].seenBy
        /\ net[i].payload.ds # <<>>
        /\ PayloadIds(net[i].payload) # {}
        /\ PayloadIds(net[i].payload) \subseteq IdsOf(store[d])

\* the documents a set of updates can arrive at: the ones that exist, and a
\* newly created one
Receivers == {store[d] : d \in Docs} \cup {EmptyStore}

Perms(S) == {f \in [1..Cardinality(S) -> S] : \A x \in S : \E k \in DOMAIN f : f[k] = x}

RECURSIVE ApplyInOrder(_, _)
ApplyInOrder(st, order) ==
    IF order = <<>> THEN st
    ELSE ApplyInOrder(apply_update(st, <<>>, net[order[1]].payload).store,
                      SubSeq(order, 2, Len(order)))

\* C5: a document that applies all updates of a set ends with the same content
\* whatever the order of arrival.
C5_OrderIndependent ==
    \A st \in Receivers : \A S \in SUBSET (DOMAIN net) :
        Cardinality(S) >= 2 =>
            LET first == Reading(ApplyInOrder(st, CHOOSE f \in Perms(S) : TRUE))
            IN \A g \in Perms(S) : Reading(ApplyInOrder(st, g)) = first

\* C5 witness: a document holds a block that arrived before the block it
\* depends on, and an update in flight that it has not applied brings the
\* missing block.
C5_Witness ==
    \E d \in Docs : \E i \in DOMAIN net :
        /\ store[d].pending # {}
        /\ d \notin net[i].seenBy
        /\ net[i].from # d
        /\ apply_update(store[d], txns[d], net[i].payload).store.pending = {}

\* y continues the run of x: written next by the same replica, after x, with
\* the same right origin
Continues(x, y) ==
    /\ y.id = <<x.id[1], x.id[2] + 1>>
    /\ y.origin = x.id
    /\ y.right = x.right

RECURSIVE RunHead(_, _)
RunHead(items, it) ==
    IF \E x \in items : Continues(x, it)
    THEN RunHead(items, CHOOSE x \in items : Continues(x, it))
    ELSE it

\* two runs of different replicas inserted concurrently at the same position
SamePlace(h1, h2) ==
    /\ h1.id[1] # h2.id[1]
    /\ h1.origin = h2.origin
    /\ h1.right = h2.right

Interleaved(L) ==
    \E i, j, k \in DOMAIN L :
        /\ i < j /\ j < k
        /\ LET items == Range(L)
               hi == RunHead(items, L[i])
               hj == RunHead(items, L[j])
               hk == RunHead(items, L[k])
           IN hi = hk /\ SamePlace(hi, hj)

\* C6: after merge, no element of a run lies between two elements of a run
\* another replica inserted concurrently at the same position.
C6_NoInterleaving ==
    \A d \in Docs : \A p \in DOMAIN store[d].lists : ~Interleaved(store[d].lists[p])

\* C6 witness: a document holds two runs of two elements each, inserted by the
\* two replicas at the same position, one of them received in an update.
C6_Witness ==
    \E d \in Docs : \E p \in DOMAIN store[d].lists :
        LET L == store[d].lists[p]
            items == Range(L)
        IN \E x, y \in items :
              /\ SamePlace(RunHead(items, x), RunHead(items, y))
              /\ RunHead(items, x) # x
              /\ RunHead(items, y) # y

\* what applying encode_state_as_update(doc, encode_state_vector(doc2)) makes
\* of doc2
SyncFrom(doc, doc2) ==
    LET v == encode_state_vector(store[doc2], txns[doc2])
        u == encode_state_as_update(store[doc], txns[doc], v.bytes)
    IN apply_update(v.store, txns[doc2], u.bytes).store

\* C7 as stated: applying encode_state_as_update(doc, encode_state_vector(doc2))
\* to doc2 makes the content of doc2 equal to the content of doc.
C7_AsStated ==
    \A doc, doc2 \in Docs :
        doc # doc2 => RootContent(SyncFrom(doc, doc2)) = RootContent(store[doc])

\* every insertion and deletion st2 holds, applied or pending, is in st
Covers(st, st2) ==
    /\ IdsOf(st2) \cup {it.id : it \in st2.pending} \subseteq IdsOf(st)
    /\ DeleteSetOf(st2) \cup st2.pendingDs \subseteq DeleteSetOf(st)

\* C7 amended: when doc holds every insertion and deletion that doc2 holds,
\* applying encode_state_as_update(doc, encode_state_vector(doc2)) to doc2
\* makes the content of doc2 equal to the content of doc.
C7_SyncFromSuperset ==
    \A doc, doc2 \in Docs :
        (doc # doc2 /\ Covers(store[doc], store[doc2]))
            => RootContent(SyncFrom(doc, doc2)) = RootContent(store[doc])

\* C7 witness: doc2 has applied a delta of doc that leaves out blocks doc2
\* held already, doc holds all of doc2 (also a deletion doc2 had missed), and
\* the two contents are equal and not empty.
C7_Witness ==
    \E i \in DOMAIN net : \E doc2 \in Docs :
        LET doc == net[i].from
        IN /\ doc # doc2
           /\ doc2 \in net[i].seenBy
           /\ ~net[i].full
           /\ net[i].payload.ds # <<>>
           /\ PayloadIds(net[i].payload) # {}
           /\ \E id \in IdsOf(store[doc2]) : id \notin PayloadIds(net[i].payload)
           /\ Covers(store[doc], store[doc2])
           /\ RootContent(store[doc2]) = RootContent(store[doc])
           /\ RootContent(store[doc])["name"] # <<>>

\* the state vectors a peer can present
Vectors == [Docs -> 0..MaxClock]

Uncovered(st, sv) == {id \in IdsOf(st) : id[2] >= sv[id[1]]}

\* C8: diff_v1(v) holds exactly the operations of the document that the
\* state vector v does not cover (the blocks whose sequence number v has not
\* reached), each once: every one the peer has not seen, none it has seen.
\* With the vector omitted it is the diff against the empty vector and holds
\* every operation of the document.
C8_DiffExact ==
    \A d \in Docs :
        /\ \A sv \in Vectors :
              LET diff == YTransaction_diff_v1(store[d], EncodeV1(sv))
              IN /\ PayloadIds(diff) = Uncovered(store[d], sv)
                 /\ Len(diff.structs) = Cardinality(PayloadIds(diff))
        /\ LET all == YTransaction_diff_v1(store[d], Omitted)
           IN /\ all = YTransaction_diff_v1(store[d], EncodeV1(EmptyVector))
              /\ PayloadIds(all) = IdsOf(store[d])

\* a delta in flight leaves out blocks its encoder holds, carries others and
\* a deletion, and a peer has applied it
C8_Witness ==
    \E i \in DOMAIN net :
        /\ ~net[i].full
        /\ PayloadIds(net[i].payload) # {}
        /\ net[i].payload.ds # <<>>
        /\ net[i].seenBy # {}
        /\ \E sv \in Vectors :
              /\ sv # EmptyVector
              /\ net[i].payload =
                    YTransaction_diff_v1(store[net[i].from], EncodeV1(sv))

\* C9: the state vector gives, for each replica, the number n such that
\* exactly the operations 0..n-1 of that replica are integrated.
C9_StateVectorContiguous ==
    \A d \in Docs :
        LET sv == DecodeV1(YTransaction_state_vector_v1(store[d]))
        IN \A c \in Docs :
              {id[2] : id \in {x \in IdsOf(store[d]) : x[1] = c}} = 0..(sv[c] - 1)

\* C9 witness: a document has integrated operations of the other replica and
\* keeps a later one pending, above its state vector.
C9_Witness ==
    \E d \in Docs : \E c \in Docs :
        /\ c # d
        /\ GetState(store[d], c) >= 1
        /\ \E it \in store[d].pending :
              it.id[1] = c /\ it.id[2] > GetState(store[d], c)

\* the object `h` was preliminary and is linked by this step to an item that
\* did not exist before, of the object's type, placed in the branch of an
\* integrated YArray
PlacedInIntegratedArray(h) ==
    LET id == handles'[h].branch.item
        st == store[SharedDoc]
        st2 == store'[SharedDoc]
    IN /\ id # NoId
       /\ ~HasItem(st, id)
       /\ \E it \in AllItems(st2) :
             /\ it.id = id
             /\ it.content = [kind |-> "type", val |-> handles[h].kind]
             /\ \E a \in DOMAIN handles' :
                   /\ handles'[a].kind = "array"
                   /\ ~handles'[a].prelim
                   /\ handles'[a].branch = it.parent

\* C10: an integrated YText / YArray object stays integrated, bound to the
\* same branch, in every later step; an object changes form only from
\* preliminary to integrated, and only in a step that places it as a new
\* item in an integrated array.
C10_FormOnlyAdvances ==
    [][\A h \in DOMAIN handles :
          /\ h \in DOMAIN handles'
          /\ handles'[h].kind = handles[h].kind
          /\ ~handles[h].prelim =>
                (~handles'[h].prelim /\ handles'[h].branch = handles[h].branch)
          /\ (handles[h].prelim /\ ~handles'[h].prelim) =>
                PlacedInIntegratedArray(h)]_vars

\* a preliminary array holding a preliminary text was inserted into the root
\* array: both objects are integrated now, the text inside the array, and the
\* character the text brought along has been deleted through it since
C10_Witness ==
    \E a, t \in DOMAIN handles :
        /\ handles[a].ctor = "new" /\ handles[a].kind = "array"
        /\ handles[t].ctor = "new" /\ handles[t].kind = "text"
        /\ ~handles[a].prelim /\ ~handles[t].prelim
        /\ \E it \in AllItems(store[SharedDoc]) :
              /\ it.id = handles[t].branch.item
              /\ it.parent = handles[a].branch
        /\ ListOf(store[SharedDoc], handles[t].branch) # <<>>
        /\ BranchContent(store[SharedDoc], handles[t].branch) = <<>>

\* array.insert(txn, index, items) on the object `h`, as it would go now
TryInsert(h, index, items) ==
    YArray_insert(handles, store[SharedDoc], SharedDoc, h, index, items)

IntegratedArrays == {h \in DOMAIN handles : IsArray(h) /\ ~handles[h].prelim}

\* the list names an integrated object, or names one object twice
NamesIntegrated(items) ==
    \E k \in DOMAIN items :
        /\ items[k].kind = "shared"
        /\ \/ ~handles[items[k].h].prelim
           \/ \E j \in 1..(k - 1) : items[j] = items[k]

\* the items that stand for nested shared types
TypeItems(st) == {it \in AllItems(st) : it.content.kind = "type"}

\* C11: inserting (or pushing) into an integrated array a list that names an
\* already integrated YText / YArray object, or one preliminary object twice,
\* ends in a panic; and no object ever stands behind two items of the
\* document: the nested shared types of the store are as many as the objects
\* that were promoted.
C11_IntegratedHandleRejected ==
    /\ \A h \in IntegratedArrays :
          \A index \in 0..YArray_length(handles, store[SharedDoc], h) :
             \A items \in ItemLists :
                NamesIntegrated(items) => TryInsert(h, index, items).error # ""
    /\ Cardinality(TypeItems(store[SharedDoc]))
          = Cardinality({h \in DOMAIN handles :
                            handles[h].ctor = "new" /\ ~handles[h].prelim})

\* an insert into an integrated array was refused with the integration panic
\* while an object promoted by an earlier insert exists
C11_Witness ==
    /\ err.call \in {"insert", "push"}
    /\ err.error = CannotIntegrate
    /\ \E h \in DOMAIN handles :
          /\ handles[h].ctor = "new"
          /\ ~handles[h].prelim
          /\ HasItem(store[SharedDoc], handles[h].branch.item)

\* After the call that ended in S, the object `g` is integrated and its branch
\* holds what `g` held before the call (in `hs0`), element for element: a text
\* its characters, an array its values, a nested object standing as one item
\* of its type with, in turn, its own value replayed.
RECURSIVE Replayed(_, _, _)
Replayed(S, g, hs0) ==
    LET L == ListOf(S.st, S.hs[g].branch)
    IN /\ ~S.hs[g].prelim
       /\ \A i \in DOMAIN L : ~L[i].deleted
       /\ IF hs0[g].kind = "text"
          THEN BranchContent(S.st, S.hs[g].branch) = hs0[g].text
          ELSE /\ Len(L) = Len(hs0[g].items)
               /\ BranchLen(S.st, S.hs[g].branch) = Len(hs0[g].items)
               /\ \A i \in DOMAIN L :
                     LET x == hs0[g].items[i]
                     IN IF x.kind = "any"
                        THEN L[i].content = [kind |-> "any", val |-> Stored(JsonOf(x.val))]
                        ELSE /\ x.kind = "shared"
                             /\ L[i].content = [kind |-> "type", val |-> hs0[x.h].kind]
                             /\ S.hs[x.h].branch = Nested(L[i].id)
                             /\ Replayed(S, x.h, hs0)

C13_AsStated ==
    [][(err'.call \in {"insert", "push"} /\ err'.error = CannotIntegrate)
          => Snapshot(store'[SharedDoc]) = Snapshot(store[SharedDoc])]_vars

\* what a document holds: what is read from it and what waits in it
Holding(st) == [reading |-> Snapshot(st), pending |-> st.pending,
                pendingDs |-> st.pendingDs]

\* C14: an update whose bytes end early is refused by apply_update and by
\* apply_v1 and nothing of it is applied: the content and length of every
\* shared type, the state vector and the pending updates of the document are
\* what they were before the call.
C14_MalformedRejected ==
    \A d \in Docs : \A e \in Docs \ {d} : \A diff \in UpdatesOf(e) :
        diff.cut =>
            LET r == apply_update(store[d], <<>>, diff)
            IN /\ r.error = DecodeError
               /\ Holding(r.store) = Holding(store[d])
               /\ YTransaction_apply_v1(store[d], diff) = store[d]

\* a document was handed a cut update of a peer whose blocks it lacks
C14_Witness ==
    /\ err.error = DecodeError
    /\ err.call = "apply_update"
    /\ \E e \in Docs \ {err.doc} :
          /\ IdsOf(store[e]) # {}
          /\ IdsOf(store[e]) \cap IdsOf(store[err.doc]) = {}
          /\ DeleteSetOf(store[e]) # {}

\* the item stands for the value: a JSON-like value as itself, a YText / YArray
\* object as one item of its type that the object is bound to after the call
StandsFor(S, it, x) ==
    IF x.kind = "any" THEN it.content = [kind |-> "any", val |-> Stored(JsonOf(x.val))]
    ELSE /\ x.kind = "shared"
         /\ it.content = [kind |-> "type", val |-> handles[x.h].kind]
         /\ S.hs[x.h].branch = Nested(it.id)

\* after the call that ended in S the array `h` reads
\* old[0..index) ++ items ++ old[index..n)
Spliced(S, h, index, items) ==
    LET old == Visible(ListOf(store[SharedDoc], handles[h].branch))
        new == Visible(ListOf(S.st, handles[h].branch))
        k == Len(items)
    IN /\ Len(new) = Len(old) + k
       /\ BranchLen(S.st, handles[h].branch)
             = YArray_length(handles, store[SharedDoc], h) + k
       /\ \A i \in 1..index : new[i].id = old[i].id /\ new[i].content = old[i].content
       /\ \A i \in (index + 1)..Len(old) :
             new[i + k].id = old[i].id /\ new[i + k].content = old[i].content
       /\ \A j \in 1..k : StandsFor(S, new[index + j], items[j])

\* the list holds JSON-like values and preliminary objects only
PrimitivesAndPrelims(items) ==
    \A k \in DOMAIN items :
        items[k].kind = "any" \/ (items[k].kind = "shared" /\ handles[items[k].h].prelim)

C16_GetOutOfBounds ==
    [][\A h \in DOMAIN handles, index \in 0..MaxClock :
          (/\ IsArray(h)
           /\ index >= YArray_length(handles, store[SharedDoc], h)
           /\ ArrayGet(SharedDoc, h, index))
             => /\ err' = Failed("get", SharedDoc, IndexError)
                /\ handles' = handles
                /\ store' = store]_vars

\* get has failed with the index error while a preliminary array and a
\* non-empty integrated array exist
C16_Witness ==
    /\ err = Failed("get", SharedDoc, IndexError)
    /\ \E h \in DOMAIN handles : IsArray(h) /\ handles[h].prelim
    /\ \E h \in DOMAIN handles :
          /\ IsArray(h) /\ ~handles[h].prelim
          /\ YArray_length(handles, store[SharedDoc], h) >= 1

\* the value get(index) hands back is the logical value of the item: the
\* JSON-like value itself, or an object over the nested branch of the item
LogicalValue(g, it) ==
    IF it.content.kind = "type"
    THEN g.branch = Nested(it.id)
    ELSE g.value = AnyValue(ObjectOf(Loaded(it.content.val))) /\ g.branch = NoBranch

\* C17 as stated: for every index below the length of an integrated array,
\* get(index) does not fail and returns the logical value at that position:
\* the value of a JSON-like element, an object over the nested storage for a
\* nested text and for a nested array.
C17_AsStated ==
    \A h \in IntegratedArrays :
       \A index \in 0..(YArray_length(handles, store[SharedDoc], h) - 1) :
          LET g == YArray_get(handles, store[SharedDoc], h, index)
              it == Visible(ListOf(store[SharedDoc], handles[h].branch))[index + 1]
          IN g.error = "" /\ LogicalValue(g, it)

\* the UTF-8 byte length of a string: 1 to 4 bytes for each code point
RECURSIVE ByteLength(_)
ByteLength(str) ==
    IF str = <<>> THEN 0
    ELSE (IF Head(str) < 128 THEN 1 ELSE IF Head(str) < 2048 THEN 2
          ELSE IF Head(str) < 65536 THEN 3 ELSE 4) + ByteLength(Tail(str))

\* C18: on an empty text, preliminary or an integrated root, insert(0, s)
\* returns and leaves to_string equal to s and length equal to the UTF-8 byte
\* length of s, for every string s.
C18_InsertIntoEmpty ==
    [][\A h \in DOMAIN handles, str \in Strings :
          (/\ IsText(h)
           /\ YText_length(handles, store[SharedDoc], h) = 0
           /\ TextInsertStr(SharedDoc, h, 0, str))
             => /\ err' = NoError
                /\ YText_to_string(handles', store'[SharedDoc], h) = str
                /\ YText_length(handles', store'[SharedDoc], h) = ByteLength(str)]_vars

\* a preliminary text and a root text have each received one string of
\* characters of several bytes
C18_Witness ==
    /\ edits[SharedDoc] = MaxTextCalls
    /\ AllItems(store[SharedDoc]) # {}
    /\ \A it \in AllItems(store[SharedDoc]) : ~it.deleted
    /\ \E h \in DOMAIN handles :
          /\ IsText(h) /\ handles[h].prelim
          /\ YText_to_string(handles, store[SharedDoc], h) = <<8364>>
          /\ YText_length(handles, store[SharedDoc], h) = 3
    /\ \E h \in DOMAIN handles :
          /\ IsText(h) /\ ~handles[h].prelim
          /\ YText_to_string(handles, store[SharedDoc], h) = <<233, 128512>>
          /\ YText_length(handles, store[SharedDoc], h) = 6

\* The preliminary half of C19: delete(index, length) on a preliminary text of
\* N bytes with index + length > N fails with a range error of the string
\* buffer, or at the addition, and leaves the text, every other object and the document unchanged.
\* (The integrated half is decided by Text::remove_range of yrs.)
PrelimDeleteRejected ==
    [][\A h \in DOMAIN handles, index \in 0..MaxBytes, length \in Lengths :
          (/\ IsText(h) /\ handles[h].prelim
           /\ index + length > Len(handles[h].text)
           /\ TextDeleteRange(SharedDoc, h, index, length))
             => /\ err'.call = "delete"
                /\ err'.error \in {RangeError, OrderError, OverflowError}
                /\ handles' = handles
                /\ store' = store]_vars

\* a delete past the end of a non-empty preliminary text has failed
PrelimDeleteRejected_Witness ==
    /\ err = Failed("delete", SharedDoc, RangeError)
    /\ \E h \in DOMAIN handles : IsText(h) /\ handles[h].prelim /\ handles[h].text # <<>>

\* the objects get_text / get_array returned, on the document or a transaction
RootHandles(hs) == {h \in DOMAIN hs : hs[h].ctor \in {"doc.get", "txn.get"}}

\* what the object reads: the bytes of a text, the values of an array
Held(hs, st, h) ==
    IF ~hs[h].prelim THEN BranchContent(st, hs[h].branch)
    ELSE IF hs[h].kind = "text" THEN hs[h].text
    ELSE [i \in DOMAIN hs[h].items |-> hs[h].items[i].val]

\* C20: an object returned by get_text(name) or get_array(name), on the
\* document or on a transaction, is integrated from the step that returns it
\* on, and two objects looked up under one name read the same storage: after
\* every step they read the same, and a string inserted or a value pushed
\* through one of them is read through the other.
C20_RootHandlesShareStorage ==
    [][\A h \in RootHandles(handles') :
          /\ ~handles'[h].prelim
          /\ \E name \in LookupNames : handles'[h].branch = Root(name)
          /\ \A kind \in {"text", "array"}, name \in LookupNames, ctor \in {"doc.get", "txn.get"} :
                (GetRoot(SharedDoc, kind, name, ctor) /\ h = Len(handles'))
                   => handles'[h].kind = kind /\ handles'[h].branch = Root(name)
          /\ \A g \in RootHandles(handles') \ {h} :
                (handles'[g].kind = handles'[h].kind
                    /\ handles'[g].branch = handles'[h].branch)
                   => /\ Held(handles', store'[SharedDoc], g)
                            = Held(handles', store'[SharedDoc], h)
                      /\ \A index \in 0..MaxBytes, str \in Strings :
                            (h \in DOMAIN handles /\ g \in DOMAIN handles
                                /\ TextInsertStr(SharedDoc, h, index, str))
                               => Held(handles', store'[SharedDoc], g)
                                     = InsertSeq(Held(handles, store[SharedDoc], g),
                                                 index, Utf8(str))
                      /\ (h \in DOMAIN handles /\ g \in DOMAIN handles
                             /\ RootArrayPush(SharedDoc, h))
                            => Held(handles', store'[SharedDoc], g)
                                  = Append(Held(handles, store[SharedDoc], g),
                                           Stored(JsonOf(One)))]_vars

\* the text was looked up on the document and on a transaction, and a string
\* was inserted through one of the two objects
C20_Witness ==
    /\ edits[SharedDoc] = 1
    /\ \E h, g \in DOMAIN handles :
          /\ IsText(h) /\ handles[h].ctor = "doc.get"
          /\ IsText(g) /\ handles[g].ctor = "txn.get"
          /\ YText_to_string(handles, store[SharedDoc], g) = <<8364, 97>>
          /\ YText_to_string(handles, store[SharedDoc], h) = <<8364, 97>>

\* C21: looking a name up as the kind it was not created as (get_array after
\* get_text, or the reverse) returns without failure, leaves every sequence of
\* the document and the kind the name is bound to as they were, and gives an
\* integrated object over the storage the name already has: it reads the
\* content that was there.
C21_OtherKindReprojects ==
    [][\A kind \in {"text", "array"}, name \in LookupNames, ctor \in {"doc.get", "txn.get"} :
          (/\ name \in DOMAIN store[SharedDoc].roots
           /\ store[SharedDoc].roots[name] # kind
           /\ GetRoot(SharedDoc, kind, name, ctor))
             => /\ err' = NoError
                /\ store'[SharedDoc].lists = store[SharedDoc].lists
                /\ store'[SharedDoc].roots = store[SharedDoc].roots
                /\ LET h == Len(handles')
                   IN /\ ~handles'[h].prelim
                      /\ handles'[h].kind = kind
                      /\ handles'[h].branch = Root(name)
                      /\ Held(handles', store'[SharedDoc], h)
                            = BranchContent(store[SharedDoc], Root(name))]_vars

\* a text that holds a string has been looked up as an array
C21_Witness ==
    \E h, g \in DOMAIN handles :
        /\ IsText(h) /\ IsArray(g)
        /\ handles[h].branch = handles[g].branch
        /\ handles[h].branch.root \in DOMAIN store[SharedDoc].roots
        /\ store[SharedDoc].roots[handles[h].branch.root] = "text"
        /\ g > h
        /\ Len(Held(handles, store[SharedDoc], g)) > 0

\* the items the full update of the document carries, and the deletions
Encoded(st) ==
    LET full == UpdateDecode(YTransaction_diff_v1(st, Omitted))
    IN [ids |-> {it.id : it \in Range(full.structs)}, ds |-> full.ds]

\* C22: when a transaction that was not committed is released, the document
\* is committed: it reads what the transaction read after its last mutation,
\* the next transaction can be opened on it, and the updates encoded from then
\* on carry every item and every deletion of it.
C22_ReleaseCommits ==
    [][\A d \in Docs, i \in Slots :
          (/\ i \in DOMAIN txns[d]
           /\ ~txns[d][i].committed
           /\ TxnFree(d, i))
             => /\ store'[d] = Commit(store[d])
                /\ Reading(store'[d]) = Reading(store[d])
                /\ YDoc_begin_transaction(txns'[d]).ok
                /\ Encoded(store'[d]).ids = IdsOf(store'[d])
                /\ Encoded(store'[d]).ds
                      = {it.id : it \in {x \in AllItems(store'[d]) : x.deleted}}]_vars

\* a document whose transaction made two insertions in a row has been
\* released: no transaction is open and the insertions form one block
C22_Witness ==
    \E d \in Docs :
        /\ txns[d] = <<>>
        /\ edits[d] > 0
        /\ err = NoError
        /\ \E it \in AllItems(store[d]) : ~it.head /\ it.id[1] = d
        /\ \A e \in Docs : store[e].pending = {} /\ (e # d => store[e] = EmptyStore)

\* C24 as stated: when the block over a transaction is left, after the body
\* completed or after it raised, the transaction is committed and released:
\* begin_transaction on the same document succeeds next.
C24_AsStated ==
    [][\A d \in Docs, i \in Slots :
          TxnExit(d, i)
             => /\ store'[d] = Commit(store[d])
                /\ YDoc_begin_transaction(txns'[d]).ok]_vars

\* the two documents have integrated the same operations
SameOperations(d, e) ==
    /\ IdsOf(store[d]) = IdsOf(store[e])
    /\ DeleteSetOf(store[d]) = DeleteSetOf(store[e])

\* every vector argument of encode_state_as_update: none, or an encoded vector
VectorArguments == {Omitted} \cup {EncodeV1(sv) : sv \in Vectors}

C26_EncodingLeavesDocument ==
    [][Len(net') > Len(net)
          => /\ \A e \in Docs :
                   /\ Reading(store'[e]) = Reading(store[e])
                   /\ Snapshot(store'[e]) = Snapshot(store[e])
             /\ txns' = txns
             /\ handles' = handles]_vars

\* an update with blocks and a deletion was encoded from a document that has
\* content, for a peer whose state vector was encoded too
C26_Witness ==
    \E i \in DOMAIN net :
        /\ ~net[i].full
        /\ net[i].payload.structs # <<>>
        /\ net[i].payload.ds # <<>>
        /\ net[i].seenBy = {}
        /\ BranchLen(store[net[i].from], TextRoot) > 0

\* C27: a call that edits a preliminary text or array (insert, push, delete:
\* the object is preliminary before and after and its value has changed)
\* changes the value of that object only: every document, every transaction
\* and every other object are as before.
C27_PrelimEditsAreLocal ==
    [][\A h \in DOMAIN handles :
          (handles[h].prelim /\ handles'[h].prelim /\ handles'[h] # handles[h])
             => /\ store' = store
                /\ txns' = txns
                /\ \A g \in DOMAIN handles \ {h} : handles'[g] = handles[g]
                /\ handles'[h] = [handles[h] EXCEPT !.text = handles'[h].text,
                                                    !.items = handles'[h].items]]_vars

\* three calls have edited preliminary objects: a preliminary array holds a
\* preliminary text that was extended
C27_Witness ==
    /\ edits[SharedDoc] = MaxCalls
    /\ \E h, g \in DOMAIN handles :
          /\ IsArray(h) /\ handles[h].prelim
          /\ IsText(g) /\ handles[g].prelim
          /\ Len(handles[h].items) = 1
          /\ handles[h].items[1] = Ref(g)
          /\ handles[g].text = <<"a", "b">>

\* the object handed out stands for the element at `index` of the array the
\* reader `r` walks
ElementAt(r, index, obj) ==
    IF r.prelim
    THEN obj = [value |-> handles[r.array].items[index + 1], branch |-> NoBranch]
    ELSE LogicalValue(obj, Visible(ListOf(store[r.doc], handles[r.array].branch))[index + 1])

\* the advance of the reader `k` in this step hands out the element at the
\* place the reader was at and moves one place on, or reports done and stays
\* where it is when all length elements have been handed out
YieldsNext(k) ==
    LET r == readers[k]
        n == YArray_length(handles, store[r.doc], r.array)
        next == readers'[k]
    IN IF r.pos < n
       THEN /\ err' = NoError
            /\ next.pos = r.pos + 1
            /\ Len(next.last) = 1 /\ ~next.last[1].done
            /\ ElementAt(r, r.pos, next.last[1].value[1])
       ELSE /\ err' = NoError
            /\ next.pos = r.pos
            /\ next.last = <<IteratorNext_finished>>

\* C28 as stated: a values() reader over an array of either form, advanced
\* while its transaction is there and the array is not changed, yields the
\* elements of the array in index order, one per advance, exactly length of
\* them, and reports done on that and on every later advance.
C28_AsStated ==
    [][\A k \in DOMAIN readers :
          ReaderNext(k) /\ readers[k].txn # "released" => YieldsNext(k)]_vars

\* the element the reader `r` is at is a nested array
AtNestedArray(r) ==
    /\ ~r.prelim
    /\ LET V == Visible(ListOf(store[r.doc], handles[r.array].branch))
       IN r.pos < Len(V) /\ V[r.pos + 1].content = [kind |-> "type", val |-> "array"]

\* What holds of C28: the reader yields as stated at every element that is not
\* a nested array of an integrated array.
ReaderYieldsInOrder ==
    [][\A k \in DOMAIN readers :
          /\ ReaderNext(k)
          /\ readers[k].txn # "released"
          /\ ~AtNestedArray(readers[k])
          => YieldsNext(k)]_vars

\* a reader over a preliminary array of two elements and a reader over an
\* integrated array of two elements have each handed out the second element
\* and then reported done
ReaderYieldsInOrder_Witness ==
    \E k \in DOMAIN readers :
       /\ readers[k].pos = 2
       /\ readers[k].last = <<IteratorNext_finished>>
       /\ YArray_length(handles, store[readers[k].doc], readers[k].array) = 2
       /\ ~readers[k].prelim
       /\ readers[k].txn # "released"

ReaderYieldsInOrder_WitnessPrelim ==
    \E k \in DOMAIN readers :
       /\ readers[k].pos = 2
       /\ readers[k].last = <<IteratorNext_finished>>
       /\ readers[k].prelim
       /\ Len(handles[readers[k].array].items) = 2

\* the call failed with an error the caller can catch
ExplicitFailure(e) == e.error \notin {"", Crash}

\* C29 as stated: advancing a values() reader after the transaction it was
\* made under has been committed or released fails explicitly and hands out
\* no value.
C29_AsStated ==
    [][\A k \in DOMAIN readers :
          ReaderNext(k) /\ readers[k].txn \in {"committed", "released"}
          => ExplicitFailure(err') /\ readers'[k].last = readers[k].last]_vars

\* a reader has handed out an element after its transaction was released
ReaderOutlivesTransaction ==
    \E k \in DOMAIN readers :
       /\ readers[k].txn = "released"
       /\ readers[k].last # <<>> /\ ~readers[k].last[1].done
       /\ err = NoError

\* the insert of the plain object `o` at `index` of the array `h` in this step
\* returns, the item it makes holds the JSON-like value of the same kind and
\* value, and get(index) then returns an object equal to `o`
RoundTrips(h, index, o) ==
    LET g == YArray_get(handles', store'[SharedDoc], h, index)
        V == Visible(ListOf(store'[SharedDoc], handles[h].branch))
    IN /\ err' = NoError
       /\ index < Len(V)
       /\ V[index + 1].content = [kind |-> "any", val |-> Stored(JsonOf(o))]
       /\ g.error = ""
       /\ g.value = AnyValue(o)

\* C30 as stated: None, a bool, an int, a float, a str, and a list or a
\* str-keyed dict of these, inserted into an integrated array, is kept as
\* Null, Bool, BigInt, Number, String, Array or Map, and get returns it as the
\* same value of the same kind.
C30_AsStated ==
    [][\A h \in IntegratedArrays, index \in 0..MaxClock, o \in PyObjects :
          ArrayInsert(SharedDoc, h, index, <<AnyValue(o)>>)
          => RoundTrips(h, index, o)]_vars

\* the object and its elements are neither None, nor a bool, nor an int that
\* is not a double
ExactlyKept(o) ==
    LET plain(type, v) == /\ type \notin {"NoneType", "bool"}
                          /\ type = "int" => v[1] <= F64Exact
    IN /\ plain(o.type, o.v)
       /\ \A k \in DOMAIN o.items : plain(o.items[k].type, o.items[k].v)

\* What holds of C30: a str, a float, an int that is a double, and a list or
\* dict of these, comes back from get as the same value of the same kind.
PlainValuesRoundTrip ==
    [][\A h \in IntegratedArrays, index \in 0..MaxClock, o \in PyObjects :
          ArrayInsert(SharedDoc, h, index, <<AnyValue(o)>>) /\ ExactlyKept(o)
          => RoundTrips(h, index, o)]_vars

\* an integrated array holds a float, a list of a str and an int, and a dict
PlainValuesRoundTrip_Witness ==
    \E h \in IntegratedArrays :
       LET V == Visible(ListOf(store[SharedDoc], handles[h].branch))
       IN /\ \E i \in DOMAIN V : V[i].content.val = Stored(JsonOf(PyFloat(3)))
          /\ \E i \in DOMAIN V :
                V[i].content.val =
                   Stored(JsonOf(PyList(<<Entry(<<>>, One), Entry(<<>>, PyLong(1))>>)))
          /\ \E i \in DOMAIN V :
                V[i].content.val = Stored(JsonOf(PyDict(<<Entry(<<107>>, PyLong(1))>>)))

\* get has handed back the int 1 where True was inserted
BoolComesBackAsInt ==
    \E h \in IntegratedArrays :
       LET V == Visible(ListOf(store[SharedDoc], handles[h].branch))
       IN /\ Len(V) = 1
          /\ py_into_any(AnyValue(PyBool(TRUE))) = <<Loaded(V[1].content.val)>>
          /\ YArray_get(handles, store[SharedDoc], h, 0).value = AnyValue(PyLong(1))

\* the k new elements of the array `h`, as the call that ended in S left them,
\* are one block for every longest run of JSON-like values of `items` and one
\* block for every YText / YArray object, made from left to right
Batched(S, h, index, items) ==
    LET new == Visible(ListOf(S.st, handles[h].branch))
        k == Len(items)
        object(j) == py_into_any(items[j]) = <<>>
    IN /\ Len(new) >= index + k
       /\ \A j \in 1..k :
             new[index + j].head = (j = 1 \/ object(j) \/ object(j - 1))
       /\ \A j \in 2..k :
             /\ new[index + j].id[1] = new[index + 1].id[1]
             /\ new[index + j].id[2] > new[index + j - 1].id[2]
             /\ ~new[index + j].head
                   => new[index + j].id[2] = new[index + j - 1].id[2] + 1

\* C31: an insert into an integrated array makes one block of several values
\* for each longest run of consecutive JSON-like values and one block for
\* each YText / YArray object, from left to right, each at index plus the
\* number of values the call has put in before it; a run is not split and
\* does not reach over an object. A call that panics has done so for the
\* values before the one it panics at.
C31_InsertAtBatches ==
    \A h \in IntegratedArrays :
       \A index \in 0..YArray_length(handles, store[SharedDoc], h) :
          \A items \in ItemLists :
             LET S == TryInsert(h, index, items)
                 done == BranchLen(S.st, handles[h].branch)
                            - YArray_length(handles, store[SharedDoc], h)
             IN /\ S.error = "" => Spliced(S, h, index, items)
                /\ done \in 0..Len(items)
                /\ S.error = "" => done = Len(items)
                /\ Batched(S, h, index, SubSeq(items, 1, done))

\* a root array holds two values that one call has put in as one block, and
\* a preliminary text that can be inserted between values is at hand
C31_Witness ==
    /\ \E h \in IntegratedArrays :
          LET L == ListOf(store[SharedDoc], handles[h].branch)
          IN \E i \in 2..Len(L) :
                /\ ~L[i].head /\ L[i].content.kind = "any"
                /\ L[i - 1].content.kind = "any" /\ ~L[i].deleted
    /\ \E t \in DOMAIN handles : handles[t].prelim
    /\ \E h \in IntegratedArrays :
          YArray_length(handles, store[SharedDoc], h) < MaxClock

\* what each of the five calls on the document `d` would do now
DocumentCalls(d) ==
    {YDoc_get_root(store[d], txns[d], "name", kind) : kind \in {"text", "array"}}
    \cup {[k \in {"ok", "store", "txns"} |-> encode_state_vector(store[d], txns[d])[k]]}
    \cup {[k \in {"ok", "store", "txns"} |->
              encode_state_as_update(store[d], txns[d],
                  IF e = d THEN Omitted ELSE YTransaction_state_vector_v1(store[e]))[k]] :
           e \in Docs}
    \cup UNION {{[ok |-> r.error # AlreadyBorrowed, store |-> r.store, txns |-> r.txns] :
                   r \in {apply_update(store[d], txns[d], diff) : diff \in UpdatesOf(e)}} :
               e \in Docs \ {d}}

\* C32: get_text, get_array, encode_state_vector, encode_state_as_update and
\* apply_update on a document with no transaction open leave none open and
\* do not fail as borrowed, so that begin_transaction succeeds after them; on
\* a document with a transaction open they fail as a second
\* begin_transaction does and leave the transaction and the document as they
\* were.
C32_DocumentCallsReleaseTransaction ==
    \A d \in Docs : \A r \in DocumentCalls(d) :
       IF txns[d] = <<>>
       THEN /\ r.ok
            /\ r.txns = <<>>
            /\ YDoc_begin_transaction(r.txns).ok
       ELSE /\ ~YDoc_begin_transaction(txns[d]).ok
            /\ ~r.ok
            /\ r.txns = txns[d] /\ r.store = store[d]

\* apply_update was refused on a document whose open transaction has pending
\* changes
C32_Witness ==
    \E d \in Docs :
        /\ err = Failed("apply_update", d, AlreadyBorrowed)
        /\ Len(txns[d]) = 1
        /\ txns[d][1].changed

\* C33, each pass: a pass of the outer loop of insert_at that does not panic
\* moves the cursor on by at least one value and not past the end of the list,
\* whether the value at the cursor is a JSON-like value or an object.
PassConsumes ==
    [][InsertPass(SharedDoc) /\ call' # NoCall
          => call'.i > call.i /\ call'.i <= Len(call.src)]_vars

\* C33: insert_at terminates: a call that has been entered returns or panics,
\* and every pass of its outer loop that does not panic consumes at least one
\* value of the list.
C33_InsertAtTerminates == PassConsumes /\ (call # NoCall ~> call = NoCall)

\* a call with a list of a value and an object has made its first pass and
\* has the object before it
C33_Witness ==
    /\ call # NoCall
    /\ call.i = 1 /\ Len(call.src) = 2
    /\ py_into_any(call.src[2]) = <<>>

\* doc2 after it has applied encode_state_as_update(doc, encode_state_vector(doc2)),
\* from the stores given
Pulled(st, st2) ==
    LET v == encode_state_vector(st2, <<>>)
        u == encode_state_as_update(st, <<>>, v.bytes)
    IN apply_update(v.store, <<>>, u.bytes).store

\* the two replicas after an exchange both ways: both diffs encoded before
\* either is applied, or the second encoded after the first is applied
Exchanges(a, b) ==
    {[a |-> Pulled(store[b], store[a]), b |-> Pulled(store[a], store[b])],
     [a |-> Pulled(Pulled(store[a], store[b]), store[a]), b |-> Pulled(store[a], store[b])]}

\* C34: after two replicas exchange diffs both ways, each applying the other's
\* encode_state_as_update computed against its own state vector, with no edit
\* in between, their state vectors are equal, and a further diff applied in
\* either direction changes nothing of either.
C34_ExchangeSettles ==
    \A a, b \in Docs :
       (a # b /\ txns[a] = <<>> /\ txns[b] = <<>>) =>
          \A x \in Exchanges(a, b) :
             /\ StateVector(x.a) = StateVector(x.b)
             /\ Pulled(x.a, x.b) = x.b
             /\ Pulled(x.b, x.a) = x.a

\* both replicas have typed and deleted, each holds blocks and a deletion the
\* other lacks, one of them has blocks waiting for a block it misses, and the
\* exchange changes both
C34_Witness ==
    \E a, b \in Docs :
       /\ a # b
       /\ IdsOf(store[a]) \ IdsOf(store[b]) # {}
       /\ IdsOf(store[b]) \ IdsOf(store[a]) # {}
       /\ DeleteSetOf(store[a]) \ DeleteSetOf(store[b]) # {}
       /\ store[b].pending # {}
       /\ \A x \in Exchanges(a, b) :
             /\ Reading(x.a) # Reading(store[a])
             /\ Reading(x.b) # Reading(store[b])
             /\ x.b.pending = {}

\* what a replica has deleted, or has applied a deletion of
Gone(st) == DeleteSetOf(st) \cup st.pendingDs

\* the characters and elements a reader of the replica sees
Seen(st) == {it.id : it \in {x \in AllItems(st) : ~x.deleted}}

\* the updates a replica may be handed: those in flight, encoded when their
\* sender was in an earlier state, and what the other replica encodes now,
\* whole or as a delta
Incoming(d) ==
    {net[i].payload : i \in DOMAIN net}
        \cup UNION {UpdatesOf(e) : e \in Docs \ {d}}
        \cup {YTransaction_diff_v1(store[e], YTransaction_state_vector_v1(store[d])) :
                 e \in Docs \ {d}}

\* C35: what a replica has deleted, or has applied a deletion of, is not
\* visible on it, and stays deleted and invisible after apply_update of any
\* update, also of one encoded before the deletion.
C35_DeletedStaysDeleted ==
    \A d \in Docs :
       /\ Gone(store[d]) \cap Seen(store[d]) = {}
       /\ \A diff \in Incoming(d) :
             LET after == apply_update(store[d], txns[d], diff).store
             IN /\ Gone(store[d]) \subseteq Gone(after)
                /\ Gone(after) \cap Seen(after) = {}

\* a replica holds a tombstone, and an update in flight from the other
\* replica, which it has applied, carries the deleted block without the
\* deletion; it also knows a deletion of a block it has not got yet
C35_Witness ==
    \E d \in Docs : \E i \in DOMAIN net :
       /\ net[i].from # d
       /\ d \in net[i].seenBy
       /\ \E id \in DeleteSetOf(store[d]) :
             /\ id \in PayloadIds(net[i].payload)
             /\ id \notin Range(net[i].payload.ds)
       /\ txns[d] = <<>>

\* the elements get reports of the array `h`, index by index
Reported(hs, st, h) ==
    [i \in 1..YArray_length(hs, st, h) |-> YArray_get(hs, st, h, i - 1).value]

\* the objects of the caller with one more: a preliminary array of `content`
WithTwin(content) == Append(handles, YArray_new(content))

\* the integrated array `h` after the call that ended in A and its
\* preliminary twin after the call that ended in B report the same length and
\* the same element at every index
SameReport(A, h, B) ==
    /\ YArray_length(A.hs, A.st, h) = YArray_length(B.hs, B.st, Len(B.hs))
    /\ Reported(A.hs, A.st, h) = Reported(B.hs, B.st, Len(B.hs))

\* C36 as stated, for arrays: a preliminary array that starts with what an
\* integrated array reports, and the integrated array, report the same length
\* and the same element at every index after the same in-range insert of a
\* primitive value.
C36_AsStated ==
    \A h \in IntegratedArrays :
       LET st == store[SharedDoc]
           hs == WithTwin(Reported(handles, st, h))
       IN \A index \in 0..YArray_length(handles, st, h) : \A o \in Scalars :
             SameReport(YArray_insert(hs, st, SharedDoc, h, index, <<AnyValue(o)>>), h,
                        YArray_insert(hs, st, SharedDoc, Len(hs), index, <<AnyValue(o)>>))

\* What holds of C36 for arrays: the two forms report the same after an
\* in-range insert of a str, a float or an int that is a double, or of a list
\* or dict of these, and after an in-range delete.
ArrayFormsAgree ==
    \A h \in IntegratedArrays :
       LET st == store[SharedDoc]
           hs == WithTwin(Reported(handles, st, h))
           n == YArray_length(handles, st, h)
       IN /\ \A index \in 0..n : \A o \in {x \in PyObjects : ExactlyKept(x)} :
                SameReport(YArray_insert(hs, st, SharedDoc, h, index, <<AnyValue(o)>>), h,
                           YArray_insert(hs, st, SharedDoc, Len(hs), index, <<AnyValue(o)>>))
          /\ \A index \in 0..n : \A length \in 1..(n - index) :
                SameReport(YArray_delete(hs, st, h, index, length), h,
                           YArray_delete(hs, st, Len(hs), index, length))

\* an integrated array of two elements, one of them a dict
ArrayFormsAgree_Witness ==
    \E h \in IntegratedArrays :
       /\ YArray_length(handles, store[SharedDoc], h) = 2
       /\ \E i \in 0..1 :
             YArray_get(handles, store[SharedDoc], h, i).value.val.type = "dict"

\* What holds of C36 for texts: a preliminary text that starts with the bytes
\* of an integrated text, and the integrated text, hold the same bytes, and so
\* report the same to_string and length, after the same insert, push or
\* delete that is in range and between characters.
TextFormsAgree ==
    \A h \in {g \in DOMAIN handles : IsText(g) /\ ~handles[g].prelim
                                        /\ Native(handles, store[SharedDoc], g)} :
       LET st == store[SharedDoc]
           p == handles[h].branch
           v == YText_bytes(handles, st, h)
           same(st2, r) ==
               /\ r.error = ""
               /\ BranchContent(st2, p) = r.text
               /\ FromUtf8(BranchContent(st2, p)) = FromUtf8(r.text)
               /\ BranchLen(st2, p) = Len(r.text)
       IN /\ \A index \in 0..Len(v) : \A str \in Strings :
                IsCharBoundary(v, index) =>
                   same(YText_insert(st, SharedDoc, p, index, Utf8(str)),
                        String_insert_str(v, index, Utf8(str)))
          /\ \A str \in Strings :
                same(Text_push(st, SharedDoc, p, Utf8(str)),
                     [error |-> "", text |-> v \o Utf8(str)])
          /\ \A index \in 0..Len(v) : \A length \in 1..(Len(v) - index) :
                (IsCharBoundary(v, index) /\ IsCharBoundary(v, index + length)) =>
                   same(YText_delete(st, p, index, length),
                        String_drain(v, index, (index + length) % U32))

\* an integrated text of two characters of more than one byte each
TextFormsAgree_Witness ==
    \E h \in DOMAIN handles :
       /\ IsText(h) /\ ~handles[h].prelim /\ Native(handles, store[SharedDoc], h)
       /\ Len(YText_to_string(handles, store[SharedDoc], h)) = 2
       /\ YText_length(handles, store[SharedDoc], h) >= 5

\* C37: no step of a document (a local edit, a commit, an apply_update or
\* apply_v1, or any other call) makes an entry of its state vector smaller.
C37_StateVectorGrows ==
    [][\A d \in Docs, c \in Docs :
          GetState(store'[d], c) >= GetState(store[d], c)]_vars

\* a document has typed, has applied the other's update, and has committed:
\* both entries of its state vector are above zero
C37_Witness ==
    \E d \in Docs :
       /\ \A c \in Docs : GetState(store[d], c) >= 1
       /\ edits[d] >= 1
       /\ \E i \in DOMAIN txns[d] : txns[d][i].committed

\* C38: commit changes no logical content: the content and the length of
\* every text and array and the state vector are the same before and after
\* YTransaction::commit, and a second commit right after changes nothing at
\* all.
C38_CommitKeepsContent ==
    \A d \in Docs :
       LET st == store[d]
           once == YTransaction_commit(st)
       IN /\ Snapshot(once) = Snapshot(st)
          /\ Reading(once) = Reading(st)
          /\ \A p \in DOMAIN st.lists : BranchLen(once, p) = BranchLen(st, p)
          /\ YTransaction_commit(once) = once

\* a transaction has typed twice and has not committed: commit has blocks to
\* merge
C38_Witness ==
    \E d \in Docs :
       /\ \E i \in DOMAIN txns[d] : txns[d][i].changed
       /\ YTransaction_commit(store[d]) # store[d]
       /\ Len(RootContent(store[d])["name"]) >= 2

\* C38 for arrays: at every point of an insert into an integrated array,
\* between two passes of insert_at as well, commit keeps the length and the
\* elements of every integrated array, and a second commit changes nothing.
CommitKeepsArrays ==
    LET st == store[SharedDoc]
        once == YTransaction_commit(st)
    IN /\ Snapshot(once) = Snapshot(st)
       /\ \A g \in IntegratedArrays :
             /\ YArray_length(handles, once, g) = YArray_length(handles, st, g)
             /\ Reported(handles, once, g) = Reported(handles, st, g)
       /\ YTransaction_commit(once) = once

\* insert_at is between two passes, and commit has blocks to merge in an
\* array of two elements or more
CommitKeepsArrays_Witness ==
    /\ call # NoCall
    /\ YTransaction_commit(store[SharedDoc]) # store[SharedDoc]
    /\ \E g \in IntegratedArrays : YArray_length(handles, store[SharedDoc], g) >= 2

\* C39: on a preliminary text or array, delete(index, length) with index and
\* length in u32 and a sum that is not: the wrapped end is below index, and
\* the call fails and removes nothing, whether the addition panics or wraps.
C39_OverflowingDeleteRejected ==
    \A index \in 0..(U32 - 1), length \in 0..(U32 - 1) :
       index + length >= U32 =>
          /\ \A o \in AddU32(index, length) : ~o.panic => o.sum < index
          /\ \A h \in DOMAIN handles :
                /\ (IsText(h) /\ handles[h].prelim) =>
                      \A r \in YText_delete_prelim(handles[h].text, index, length) :
                         r.error # "" /\ r.text = handles[h].text
                /\ (IsArray(h) /\ handles[h].prelim) =>
                      \A r \in YArray_delete_prelim(handles[h].items, index, length) :
                         r.error # "" /\ r.items = handles[h].items

\* a delete whose end wrapped around has failed, and the caller holds a
\* preliminary array of two elements
C39_Witness ==
    /\ err = Failed("delete", SharedDoc, OrderError)
    /\ \E h \in DOMAIN handles :
          IsArray(h) /\ handles[h].prelim /\ Len(handles[h].items) = 2

\* C40 as stated: when the body of the block over a transaction has raised,
\* leaving the block does not report the error as handled, and the caller of
\* the block still receives it.
C40_AsStated ==
    [][\A d \in Docs, i \in Slots :
          (TxnExit(d, i) /\ err.error # "")
             => /\ ~YTransaction_exit(store[d], txns[d], i).suppress
                /\ err'.error = err.error]_vars

====
